---------------------------- MODULE Spec2Model ----------------------------
(***************************************************************************)
(* A model of lyft_trajectories/model/tl_light_predictor_intersection.py:  *)
(* the event table and its derived columns (continuous_time,               *)
(* valid_hist_len), the Valid-Window Selector (get_valid_indices), the     *)
(* Tokenized History Builder (IntersectionDataset.__getitem__), the masked *)
(* loss of train and the gradient hook of IntersectionModel.               *)
(*                                                                         *)
(* Row positions are 0-based, as in the source (iloc); Iloc and PySlice    *)
(* carry Python's treatment of negative positions.                         *)
(***************************************************************************)
EXTENDS Integers, Sequences, FiniteSets, TLC

VARIABLES
    pc,                          \* position of the module-level script
    tl_events_df,                \* the full event table (all intersections)
    train_vocab,                 \* token -> index               (lines 113-150)
    term_freq,                   \* token -> frequency           (lines 113-150)
    is_inference,                \* get_dataloader's is_inference argument
    tl_events_df_intersection,   \* the table filtered to intersection_idx
    is_nonempty_input_present_series, \* the rolling verdicts     (line 463)
    valid_indices,               \* get_valid_indices' result
    history_events_max,          \* IntersectionDataset.history_events_max
    sample,                      \* the last sample __getitem__ returned
    batch,                       \* the batch at hand: one label record per sample
    mode,                        \* the pass the batch is in: "train", "val" or
                                 \*   "predict"
    tl_pos,                      \* position of the per-signal loop
    loss_bce,                    \* the classification term
    loss_bce_terms_count,
    loss_tte_log_prob,           \* the time-to-event term
    loss_tte_log_prob_terms_count,
    loss,                        \* the combined loss
    zeroed_available,            \* available time-to-event entries zeroed so far
    alt_loss_bce,                \* the terms of a second batch that differs from
    alt_loss_tte_log_prob,       \*   batch only where the availability flag is 0
    alt_differs,                 \* whether the second batch has differed so far
    parameters,                  \* the trainable parameters of IntersectionModel
    hooked,                      \* the parameters with a gradient hook
    raw_grad,                    \* the gradients autograd computed, per parameter
    grad,                        \* param.grad, per parameter
    epoch_max,                   \* --epoch-max
    n_trn,                       \* the number of batches of dataloader_trn
    val_counted,                 \* per batch of dataloader_val: whether any of
                                 \*   its availability counts is above 0
    epoch,                       \* the epoch of train's outer loop
    trn_pos,                     \* training batches fetched in this epoch
    val_pos,                     \* validation batches fetched in this epoch
    trn_counted,                 \* whether the batch at hand has a count above 0
    losses_val_all,              \* the validation losses collected this epoch
    early_stopping,              \* the EarlyStopping object
    steps,                       \* what was done for the batch at hand, in order
    optimizer_steps,             \* optimizer steps taken since train began
    batches_fetched,             \* training batches fetched since train began
    evals,                       \* the evaluations so far: the best loss, the
                                 \*   epochs that reached it, the epochs since
    fold_i,                      \* --fold-i
    perform_prediction,          \* --predict
    disk,                        \* outputs/tl_predict_checkpoints: per artifact
                                 \*   and fold in the file name, the fold of the
                                 \*   training run that wrote the file
    loaded,                      \* per artifact, what this run read from disk
    written,                     \* the files this run wrote
    dataset,                     \* predict's dataset: per sample, its scene_idx
                                 \*   and frame_idx
    batch_size,                  \* --batch-size
    undelivered,                 \* the samples the loader has yet to deliver
    processed,                   \* the samples predict has processed, in order
    scene_indices_list,
    frame_indices_list,
    tl_idx_2_mode_list,
    tl_idx_2_25perc_list,
    tl_idx_2_75perc_list,
    tl_idx_2_green_color_prob_list,
    values_df                    \* the results table predict writes

dataVars == <<pc, tl_events_df, train_vocab, term_freq, is_inference,
              tl_events_df_intersection, is_nonempty_input_present_series,
              valid_indices, history_events_max, sample>>

lossVars == <<batch, mode, tl_pos, loss_bce, loss_bce_terms_count,
              loss_tte_log_prob, loss_tte_log_prob_terms_count, loss,
              zeroed_available, alt_loss_bce, alt_loss_tte_log_prob,
              alt_differs>>

gradVars == <<parameters, hooked, raw_grad, grad>>

\* The data side but for the position of the script.
dataVars_rest == <<tl_events_df, train_vocab, term_freq, is_inference,
                   tl_events_df_intersection, is_nonempty_input_present_series,
                   valid_indices, history_events_max, sample>>

trainVars == <<epoch_max, n_trn, val_counted, epoch, trn_pos, val_pos,
               trn_counted, losses_val_all, early_stopping, steps,
               optimizer_steps, batches_fetched, evals>>

\* What the data side, the loss and the backward pass leave alone.
artifactVars == <<fold_i, perform_prediction, disk, loaded, written>>

predictVars == <<dataset, batch_size, undelivered, processed,
                 scene_indices_list, frame_indices_list, tl_idx_2_mode_list,
                 tl_idx_2_25perc_list, tl_idx_2_75perc_list,
                 tl_idx_2_green_color_prob_list, values_df>>

runVars == <<trainVars, artifactVars, predictVars>>

vars == <<dataVars, lossVars, gradVars, runVars>>

-----------------------------------------------------------------------------
(* Bounds of the model *)

\* Longest event table explored.
MaxRows == 4

\* HIST_LEN_FRAMES is 100 in the source (line 70); the model scales it down so
\* that tables of MaxRows rows are longer than one history window.
HIST_LEN_FRAMES == 3

(* Program constants *)

\* IntersectionDataset.__init__'s default min_freq.
min_freq == 5

\* timedelta(seconds=0.31), in hundredths of a second.
ContinuityThreshold == 31

\* --intersection-i, default 0.
intersection_idx == 0

\* The signal ids master_intersection_idx_2_tl_signal_indices gives for
\* intersection_idx (an external mapping).
tl_signal_indices == <<1, 2>>

-----------------------------------------------------------------------------
(* Python helpers *)

Min(a, b) == IF a <= b THEN a ELSE b
Max(a, b) == IF a >= b THEN a ELSE b

\* s.iloc[i]: a negative position counts from the end.
Iloc(s, i) == IF i >= 0 THEN s[i + 1] ELSE s[Len(s) + i + 1]

\* Whether s.iloc[i] raises IndexError.
IlocInBounds(s, i) == -Len(s) <= i /\ i < Len(s)

\* s.iloc[start:stop]: negative bounds count from the end, then both are
\* clipped to 0..len.
PySlice(s, start, stop) ==
    LET n  == Len(s)
        lo == IF start < 0 THEN Max(start + n, 0) ELSE Min(start, n)
        hi == IF stop < 0 THEN Max(stop + n, 0) ELSE Min(stop, n)
    IN  IF lo >= hi THEN <<>> ELSE SubSeq(s, lo + 1, hi)

RECURSIVE SelectSeqIdx(_, _, _)
\* The positions i (0-based, ascending) of s with keep[i+1], from position i on.
SelectSeqIdx(keep, i, n) ==
    IF i >= n THEN <<>>
    ELSE (IF keep[i + 1] THEN <<i>> ELSE <<>>) \o SelectSeqIdx(keep, i + 1, n)

-----------------------------------------------------------------------------
(* The event table *)

\* A raw input: a token paired with its 4-dimensional one-hot token type.
TokA == <<"a", <<1, 0, 0, 0>>>>
TokB == <<"b", <<0, 1, 0, 0>>>>

\* A row as read from the input files, before the derived columns exist.
\* Timestamps are in hundredths of a second.
RawRow(ts, inter, inputs, classes, tte) ==
    [timestamp               |-> ts,
     master_intersection_idx |-> inter,
     rnn_inputs_raw          |-> inputs,
     tl_signal_classes       |-> classes,
     time_to_tl_change       |-> tte]

RECURSIVE TableOf(_, _)
\* The table whose i-th row is kinds[i], gap hundredths of a second after the
\* row before it (the first row at time ts).
TableOf(kinds, ts) ==
    IF kinds = <<>> THEN <<>>
    ELSE LET k == Head(kinds)
         IN  <<RawRow(ts + k.gap, k.inter, k.inputs, k.classes, k.tte)>>
             \o TableOf(Tail(kinds), ts + k.gap)

\* ContinuousTime without the comparison of the intersections.
ContinuousTime_IgnoresIntersection(df, i) ==
    /\ i >= 1
    /\ Iloc(df, i).timestamp - Iloc(df, i - 1).timestamp < ContinuityThreshold

\* Lines 79-85: continuous_time of row i (0-based) is
\* (timestamp.diff(1) < 0.31 s) & (master_intersection_idx.shift(1) ==
\* master_intersection_idx); on the first row diff is NaT and shift is NaN, and
\* both comparisons are False.
ContinuousTime(df, i) ==
    /\ i >= 1
    /\ Iloc(df, i).timestamp - Iloc(df, i - 1).timestamp < ContinuityThreshold
    /\ Iloc(df, i - 1).master_intersection_idx = Iloc(df, i).master_intersection_idx

\* Lines 79-85: the table with its continuous_time column.
WithContinuousTime(df) ==
    [i \in 1..Len(df) |-> df[i] @@ [continuous_time |-> ContinuousTime(df, i - 1)]]

RECURSIVE LastValidIdx_CapOffByOne(_, _, _)
\* LastValidIdx with the window test off by one (<= for <).
LastValidIdx_CapOffByOne(df, row_i, last_valid_idx) ==
    IF row_i - last_valid_idx + 1 <= HIST_LEN_FRAMES
    THEN IF ~IlocInBounds(df, last_valid_idx)
         THEN last_valid_idx
         ELSE IF Iloc(df, last_valid_idx).continuous_time
              THEN LastValidIdx_CapOffByOne(df, row_i, last_valid_idx - 1)
              ELSE last_valid_idx
    ELSE last_valid_idx

RECURSIVE LastValidIdx(_, _, _)
\* Lines 98-103: the while loop of compute_last_valid_idx_for_seq for row_i,
\* from last_valid_idx on. The result is the last_valid_idx the loop ends
\* with; a result below -len(df) stands for the IndexError of .iloc.
LastValidIdx(df, row_i, last_valid_idx) ==
    IF row_i - last_valid_idx + 1 < HIST_LEN_FRAMES
    THEN IF ~IlocInBounds(df, last_valid_idx)
         THEN last_valid_idx
         ELSE IF Iloc(df, last_valid_idx).continuous_time
              THEN LastValidIdx(df, row_i, last_valid_idx - 1)
              ELSE last_valid_idx
    ELSE last_valid_idx

\* Line 104: the value written to valid_hist_len for row_i.
ValidHistLenOf(df, row_i) == row_i - LastValidIdx(df, row_i, row_i)

\* Whether compute_last_valid_idx_for_seq raises IndexError on df.
ComputeRaises(df) ==
    \E row_i \in 0..(Len(df) - 1) : LastValidIdx(df, row_i, row_i) < -Len(df)

\* Lines 95-104: the table with its valid_hist_len column.
WithValidHistLen(df) ==
    [i \in 1..Len(df) |-> df[i] @@ [valid_hist_len |-> ValidHistLenOf(df, i - 1)]]

-----------------------------------------------------------------------------
(* The vocabulary, lines 113-128 *)

RECURSIVE VocabOfTokens(_, _, _)
\* Lines 121-127 over the tokens toks, from the vocabulary (vocab, freq) on:
\* an unseen token gets the next index and frequency 1, a seen one has its
\* frequency raised by 1.
VocabOfTokens(toks, vocab, freq) ==
    IF toks = <<>> THEN [train_vocab |-> vocab, term_freq |-> freq]
    ELSE LET token == Head(toks)[1]
         IN  IF token \notin DOMAIN vocab
             THEN VocabOfTokens(Tail(toks),
                                vocab @@ (token :> Cardinality(DOMAIN vocab)),
                                freq @@ (token :> 1))
             ELSE VocabOfTokens(Tail(toks), vocab,
                                [freq EXCEPT ![token] = @ + 1])

\* The empty dict.
EmptyDict == [t \in {} |-> 0]

\* Lines 114-127: the vocabulary and term frequencies built from the raw
\* inputs of the training rows of the intersection.
BuildVocab(toks) == VocabOfTokens(toks, EmptyDict, EmptyDict)

-----------------------------------------------------------------------------
(* get_valid_indices, lines 422-470 *)

\* Lines 431-437.
encode_len_continuity(records_len, is_continuous) ==
    (IF records_len >= 1 THEN 1 ELSE 0) + (IF is_continuous THEN 2 ELSE 0)

\* Lines 439-442: <<is_non_empty, is_continuous>>, bits 0 and 1 of num.
decode_len_continuity(num) ==
    <<(num % 2) = 1, ((num \div 2) % 2) = 1>>

\* Lines 444-451.
EncodedSeries(df) ==
    [i \in 1..Len(df) |->
        encode_len_continuity(Len(df[i].rnn_inputs_raw), df[i].continuous_time)]

RECURSIVE ScanHist_TokenBeforeContinuity(_, _)
\* ScanHist with its two tests in the other order.
ScanHist_TokenBeforeContinuity(hist, i) ==
    IF i < 0 THEN 0
    ELSE LET d == decode_len_continuity(Iloc(hist, i))
         IN  IF d[1] THEN 1
             ELSE IF ~d[2] THEN 0
             ELSE ScanHist_TokenBeforeContinuity(hist, i - 1)

RECURSIVE ScanHist(_, _)
\* Lines 455-461: the loop of is_nonempty_input_present from position i down.
ScanHist(hist, i) ==
    IF i < 0 THEN 0
    ELSE LET d == decode_len_continuity(Iloc(hist, i))
         IN  IF ~d[2] THEN 0
             ELSE IF d[1] THEN 1
             ELSE ScanHist(hist, i - 1)

\* is_nonempty_input_present answering 1 when the scan meets neither a break
\* nor a token.
is_nonempty_input_present_EmptyIsValid(hist) ==
    IF ScanHist(hist, Len(hist) - 1) = 1
       \/ \A i \in 1..Len(hist) : decode_len_continuity(hist[i])[2]
    THEN 1 ELSE 0

\* Lines 453-461.
is_nonempty_input_present(hist) == ScanHist(hist, Len(hist) - 1)

\* Line 463: rolling(window, min_periods=1) hands the aggregate the rows
\* max(0, r - window + 1) .. r of the series, for every row r.
RollingWindow(series, window, r) ==
    SubSeq(series, Max(0, r - window + 1) + 1, r + 1)

\* Lines 463-465.
RollingVerdicts(df, history_len_records) ==
    LET series == EncodedSeries(df)
    IN  [i \in 1..Len(df) |->
            is_nonempty_input_present(
                RollingWindow(series, history_len_records - 1, i - 1))]

\* ValidRow without the is_inference escape.
ValidRow_IgnoresInference(df, verdicts, inference, i) ==
    /\ Cardinality(DOMAIN df[i].tl_signal_classes) > 0
    /\ verdicts[i] = 1

\* Lines 467-469: valid_rows_bool of row i (1-based position in df).
ValidRow(df, verdicts, inference, i) ==
    /\ (Cardinality(DOMAIN df[i].tl_signal_classes) > 0 \/ inference)
    /\ verdicts[i] = 1

\* Lines 463-470: np.arange(len(df))[valid_rows_bool].
get_valid_indices(df, history_len_records, inference) ==
    LET verdicts == RollingVerdicts(df, history_len_records)
        keep     == [i \in 1..Len(df) |-> ValidRow(df, verdicts, inference, i)]
    IN  SelectSeqIdx(keep, 0, Len(df))

-----------------------------------------------------------------------------
(* IntersectionDataset, lines 302-419 *)

\* Lines 322-323: the two reserved indices.
UNKNOWN_TOKEN_IDX(vocab) == Cardinality(DOMAIN vocab)
PAD_TOKEN_IDX(vocab) == Cardinality(DOMAIN vocab) + 1

RECURSIVE MaxEvents(_)
\* Line 315: the longest rnn_inputs_raw of the table (0 for an empty table,
\* where pandas gives NaN and no sample is ever built).
MaxEvents(df) ==
    IF df = <<>> THEN 0
    ELSE Max(Len(Head(df).rnn_inputs_raw), MaxEvents(Tail(df)))

\* HistoryEventsMax sized for the rows before the target row only.
HistoryEventsMax_WithoutTargetRow(df, history_len_records) ==
    (history_len_records - 1) * MaxEvents(df)

\* Line 316.
HistoryEventsMax(df, history_len_records) ==
    history_len_records * MaxEvents(df)

\* TokenIdx with > for >=.
TokenIdx_StrictlyAbove(token, vocab, freq) ==
    IF token \in DOMAIN vocab /\ freq[token] > min_freq
    THEN vocab[token]
    ELSE Cardinality(DOMAIN vocab)

\* Lines 345-350: the index a raw token resolves to.
TokenIdx(token, vocab, freq) ==
    IF token \in DOMAIN vocab /\ freq[token] >= min_freq
    THEN vocab[token]
    ELSE UNKNOWN_TOKEN_IDX(vocab)

\* Whether lines 345-350 raise KeyError: the token is in the vocabulary and
\* the frequency table has no entry for it.
TokenIdxRaises(token, vocab, freq) ==
    token \in DOMAIN vocab /\ token \notin DOMAIN freq

\* Line 344: timestap / history_len_records, kept as a fraction.
Weight(timestap, history_len_records) ==
    [num |-> timestap, den |-> history_len_records]

\* A padding weight, np.zeros.
ZeroWeight == [num |-> 0, den |-> 1]

\* A padding type vector, np.zeros((padding_len, 4)).
ZeroOhe == <<0, 0, 0, 0>>

RECURSIVE EmitRow(_, _, _, _, _)
\* Lines 342-352 for the events of one row: one <<index, type, weight>> per
\* raw token, in the row's order.
EmitRow(events, timestap, vocab, freq, history_len_records) ==
    IF events = <<>> THEN <<>>
    ELSE <<[idx    |-> TokenIdx(Head(events)[1], vocab, freq),
            ohe    |-> Head(events)[2],
            weight |-> Weight(timestap, history_len_records)]>>
         \o EmitRow(Tail(events), timestap, vocab, freq, history_len_records)

RECURSIVE EmitHist_WeightRising(_, _, _, _, _)
\* EmitHist counting timestap up from 1 (weights grow toward the target row).
EmitHist_WeightRising(hist, timestap, vocab, freq, history_len_records) ==
    IF hist = <<>> THEN <<>>
    ELSE EmitRow(Head(hist), timestap - Len(hist) + 1, vocab, freq,
                 history_len_records)
         \o EmitHist_WeightRising(Tail(hist), timestap, vocab, freq,
                                  history_len_records)

RECURSIVE EmitHist(_, _, _, _, _)
\* Lines 341-353: the rows of raw_inputs_hist in order, timestap lowered by 1
\* after each row.
EmitHist(hist, timestap, vocab, freq, history_len_records) ==
    IF hist = <<>> THEN <<>>
    ELSE EmitRow(Head(hist), timestap, vocab, freq, history_len_records)
         \o EmitHist(Tail(hist), timestap - 1, vocab, freq, history_len_records)

\* n copies of x.
Repeat(x, n) == [i \in 1..n |-> x]

\* Lines 332-334.
ItemHistLen(df, row_i, history_len_records) ==
    Min(history_len_records, Iloc(df, row_i).valid_hist_len)

\* RawInputsHist with the slice ending before the target row.
RawInputsHist_WithoutTargetRow(df, row_i, valid_hist_len) ==
    LET rows == PySlice(df, row_i - valid_hist_len, row_i)
    IN  [i \in 1..Len(rows) |-> rows[i].rnn_inputs_raw]

\* Lines 335-337: the rnn_inputs_raw of the rows row_i - valid_hist_len .. row_i.
RawInputsHist(df, row_i, valid_hist_len) ==
    LET rows == PySlice(df, row_i - valid_hist_len, row_i + 1)
    IN  [i \in 1..Len(rows) |-> rows[i].rnn_inputs_raw]

\* Lines 377-395: the per-signal values and availability flags of row_i.
LabelsOf(df, row_i, signals) ==
    LET known_true_classes == Iloc(df, row_i).tl_signal_classes
        known_tte          == Iloc(df, row_i).time_to_tl_change
        ids                == {signals[i] : i \in 1..Len(signals)}
    IN  [all_true_classes |->
            [tl_id \in ids |-> IF tl_id \in DOMAIN known_true_classes
                               THEN known_true_classes[tl_id] ELSE 0],
         all_tte |->
            [tl_id \in ids |-> IF tl_id \in DOMAIN known_tte
                               THEN known_tte[tl_id] ELSE 99],
         classes_availabilities |->
            [tl_id \in ids |-> IF tl_id \in DOMAIN known_true_classes
                               THEN 1 ELSE 0],
         tte_availabilities |->
            [tl_id \in ids |-> IF tl_id \in DOMAIN known_tte THEN 1 ELSE 0]]

\* The value __getitem__ leaves nothing behind with: an exception.
Raised(row_i, what) ==
    [error |-> what, row_i |-> row_i, tokens_np |-> <<>>,
     token_type_ohe_np |-> <<>>, token_timesteps_np |-> <<>>, seq_len |-> 0,
     labels |-> <<>>]

\* Lines 330-419: the sample built for row_i. np.ones(padding_len) raises
\* ValueError for a negative padding_len, and np.concatenate raises ValueError
\* when token_type_ohe_list is empty: np.array([]) has one dimension and
\* np.zeros((padding_len, 4)) has two.
GetItemOf(df, row_i, vocab, freq, signals, history_len_records, events_max) ==
    LET valid_hist_len == ItemHistLen(df, row_i, history_len_records)
        hist    == RawInputsHist(df, row_i, valid_hist_len)
        raises  == \E i \in 1..Len(hist) : \E j \in 1..Len(hist[i]) :
                       TokenIdxRaises(hist[i][j][1], vocab, freq)
        emitted == EmitHist(hist, valid_hist_len + 1, vocab, freq,
                            history_len_records)
        seq_len == Len(emitted)
        padding_len == events_max - seq_len
    IN  IF raises THEN Raised(row_i, "KeyError")
        ELSE IF padding_len < 0 \/ seq_len = 0 THEN Raised(row_i, "ValueError")
        ELSE [error     |-> "none",
              row_i     |-> row_i,
              tokens_np |-> [i \in 1..seq_len |-> emitted[i].idx]
                            \o Repeat(PAD_TOKEN_IDX(vocab), padding_len),
              token_type_ohe_np |-> [i \in 1..seq_len |-> emitted[i].ohe]
                                    \o Repeat(ZeroOhe, padding_len),
              token_timesteps_np |-> [i \in 1..seq_len |-> emitted[i].weight]
                                     \o Repeat(ZeroWeight, padding_len),
              seq_len   |-> seq_len,
              labels    |-> LabelsOf(df, row_i, signals)]

\* Lines 484-486: the rows of the intersection, in table order.
FilterIntersection(df, inter) ==
    SelectSeq(df, LAMBDA row : row.master_intersection_idx = inter)

-----------------------------------------------------------------------------
(* The inputs explored *)

\* The label mappings of a row: none known, or signal 1 known.
NoLabels == [classes |-> EmptyDict, tte |-> EmptyDict]
Signal1Known == [classes |-> (1 :> 1), tte |-> (1 :> 5)]

RowKind(gap, inter, inputs, labels) ==
    [gap |-> gap, inter |-> inter, inputs |-> inputs,
     classes |-> labels.classes, tte |-> labels.tte]

\* A row of another intersection: it has inputs and labels, so that leaving
\* it in the filtered table would show.
OtherIntersectionRow == RowKind(30, intersection_idx + 1, <<TokA>>, Signal1Known)

\* Rows for the selector: gaps on both sides of the threshold, with or
\* without inputs, with or without labels, and rows of another intersection.
SelectorRowKinds ==
    {RowKind(gap, intersection_idx, inputs, labels) :
        gap \in {30, 31}, inputs \in {<<>>, <<TokA>>},
        labels \in {NoLabels, Signal1Known}}
    \cup {OtherIntersectionRow}

\* Rows for the history builder: zero, one or two raw tokens.
BuilderRowKinds ==
    {RowKind(gap, intersection_idx, inputs, Signal1Known) :
        gap \in {30, 31}, inputs \in {<<>>, <<TokA>>, <<TokB, TokA>>}}

\* The raw inputs of the training rows the vocabulary was built from: none;
\* "a" five times; "b" once and "a" four times; "b" once and "a" five times;
\* "b" five times (the table at hand may then hold tokens the vocabulary
\* lacks: it is the validation table, or the table of a predict run).
TrainTokenStreams ==
    {<<>>,
     Repeat(TokA, 5),
     <<TokB>> \o Repeat(TokA, 4),
     <<TokB>> \o Repeat(TokA, 5),
     Repeat(TokB, 5)}

-----------------------------------------------------------------------------
(* The module-level script, data side *)

NoSample == Raised(-1, "unset")

\* The data side before any table is read.
DataIdle ==
    /\ tl_events_df = <<>>
    /\ train_vocab = EmptyDict
    /\ term_freq = EmptyDict
    /\ is_inference = FALSE
    /\ tl_events_df_intersection = <<>>
    /\ is_nonempty_input_present_series = <<>>
    /\ valid_indices = <<>>
    /\ history_events_max = 0
    /\ sample = NoSample

\* The loss side before any batch is delivered.
LossIdle ==
    /\ batch = <<>>
    /\ mode = "train"
    /\ tl_pos = 0
    /\ loss_bce = <<>>
    /\ loss_bce_terms_count = 0
    /\ loss_tte_log_prob = <<>>
    /\ loss_tte_log_prob_terms_count = 0
    /\ loss = <<>>
    /\ zeroed_available = 0
    /\ alt_loss_bce = <<>>
    /\ alt_loss_tte_log_prob = <<>>
    /\ alt_differs = FALSE

\* The model before its construction.
GradIdle ==
    /\ parameters = {}
    /\ hooked = {}
    /\ raw_grad = <<>>
    /\ grad = <<>>

\* The training loop before train is called.
TrainIdle ==
    /\ epoch_max = 0
    /\ n_trn = 0
    /\ val_counted = <<>>
    /\ epoch = 0
    /\ trn_pos = 0
    /\ val_pos = 0
    /\ trn_counted = FALSE
    /\ losses_val_all = <<>>
    /\ early_stopping = <<>>
    /\ steps = <<>>
    /\ optimizer_steps = 0
    /\ batches_fetched = 0
    /\ evals = <<>>

\* The artifacts of a run that touches none.
ArtifactIdle ==
    /\ fold_i = 0
    /\ perform_prediction = FALSE
    /\ disk = <<>>
    /\ loaded = <<>>
    /\ written = {}

\* predict before it is called.
PredictIdle ==
    /\ dataset = <<>>
    /\ batch_size = 1
    /\ undelivered = {}
    /\ processed = <<>>
    /\ scene_indices_list = <<>>
    /\ frame_indices_list = <<>>
    /\ tl_idx_2_mode_list = <<>>
    /\ tl_idx_2_25perc_list = <<>>
    /\ tl_idx_2_75perc_list = <<>>
    /\ tl_idx_2_green_color_prob_list = <<>>
    /\ values_df = <<>>

\* The training loop, the prediction and the artifacts before they are used.
RunIdle == TrainIdle /\ ArtifactIdle /\ PredictIdle

\* The state once the input files are read (lines 73-77) and the vocabulary
\* is built or loaded (lines 113-150).
InitData(kinds, streams) ==
    /\ pc = "loaded"
    /\ \E n \in 1..MaxRows : \E ks \in [1..n -> kinds] :
          tl_events_df = TableOf(ks, 0)
    /\ \E toks \in streams :
          /\ train_vocab = BuildVocab(toks).train_vocab
          /\ term_freq = BuildVocab(toks).term_freq
    /\ is_inference = FALSE
    /\ tl_events_df_intersection = <<>>
    /\ is_nonempty_input_present_series = <<>>
    /\ valid_indices = <<>>
    /\ history_events_max = 0
    /\ sample = NoSample
    /\ LossIdle
    /\ GradIdle
    /\ RunIdle

\* Lines 79-85.
DeriveContinuousTime ==
    /\ pc = "loaded"
    /\ tl_events_df' = WithContinuousTime(tl_events_df)
    /\ pc' = "continuous_time"
    /\ UNCHANGED <<lossVars, gradVars, runVars>>
    /\ UNCHANGED <<train_vocab, term_freq, is_inference,
                   tl_events_df_intersection, is_nonempty_input_present_series,
                   valid_indices, history_events_max, sample>>

\* Lines 95-108: compute_last_valid_idx_for_seq on the full table.
ComputeLastValidIdxForSeq ==
    /\ pc = "continuous_time"
    /\ IF ComputeRaises(tl_events_df)
       THEN pc' = "IndexError" /\ UNCHANGED tl_events_df
       ELSE /\ tl_events_df' = WithValidHistLen(tl_events_df)
            /\ pc' = "valid_hist_len"
    /\ UNCHANGED <<lossVars, gradVars, runVars>>
    /\ UNCHANGED <<train_vocab, term_freq, is_inference,
                   tl_events_df_intersection, is_nonempty_input_present_series,
                   valid_indices, history_events_max, sample>>

\* Lines 473-504: get_dataloader filters the table to the intersection, selects
\* the valid rows and constructs the dataset.
GetDataloader(inference) ==
    /\ pc = "valid_hist_len"
    /\ LET df == FilterIntersection(tl_events_df, intersection_idx)
       IN  /\ tl_events_df_intersection' = df
           /\ is_nonempty_input_present_series' =
                  RollingVerdicts(df, HIST_LEN_FRAMES)
           /\ valid_indices' = get_valid_indices(df, HIST_LEN_FRAMES, inference)
           /\ history_events_max' = HistoryEventsMax(df, HIST_LEN_FRAMES)
    /\ is_inference' = inference
    /\ pc' = "dataloader"
    /\ UNCHANGED <<lossVars, gradVars, runVars>>
    /\ UNCHANGED <<tl_events_df, train_vocab, term_freq, sample>>

\* Lines 330-419: the data loader asks the dataset for the sample at index
\* (1-based position in valid_indices), in any order.
GetItem(index) ==
    /\ pc \in {"dataloader", "item"}
    /\ sample' = GetItemOf(tl_events_df_intersection, valid_indices[index],
                           train_vocab, term_freq, tl_signal_indices,
                           HIST_LEN_FRAMES, history_events_max)
    /\ pc' = "item"
    /\ UNCHANGED <<lossVars, gradVars, runVars>>
    /\ UNCHANGED <<tl_events_df, train_vocab, term_freq, is_inference,
                   tl_events_df_intersection, is_nonempty_input_present_series,
                   valid_indices, history_events_max>>

NextData ==
    \/ DeriveContinuousTime
    \/ ComputeLastValidIdxForSeq
    \/ \E inference \in BOOLEAN : GetDataloader(inference)
    \/ \E index \in 1..Len(valid_indices) : GetItem(index)

\* The selector's inputs.
InitSelector == InitData(SelectorRowKinds, {Repeat(TokA, 5)})
SpecSelector == InitSelector /\ [][NextData]_vars

\* The history builder's inputs.
InitBuilder == InitData(BuilderRowKinds, TrainTokenStreams)
SpecBuilder == InitBuilder /\ [][NextData]_vars

-----------------------------------------------------------------------------
(* Properties of the selector and of the history builder *)

\* The dataset exists: get_dataloader has run.
DatasetBuilt == pc \in {"dataloader", "item"}

\* The 0-based rows of a table.
RowsOf(df) == 0..(Len(df) - 1)

\* The rows get_valid_indices returned.
Selected == {valid_indices[k] : k \in 1..Len(valid_indices)}

HasTokens(df, r) == Len(Iloc(df, r).rnn_inputs_raw) >= 1
HasLabel(df, r) == DOMAIN Iloc(df, r).tl_signal_classes # {}
IsContinuous(df, r) == Iloc(df, r).continuous_time

\* C1: get_valid_indices returns a row's index if and only if the row's
\* rolling window is valid (1) and the row has a labeled signal or
\* is_inference is true; it returns nothing but row indices, in ascending
\* order.
C1_ValidIffWindowAndLabelOrInference ==
    DatasetBuilt =>
        LET df == tl_events_df_intersection
        IN  /\ \A r \in RowsOf(df) :
                 r \in Selected <=>
                     /\ is_nonempty_input_present_series[r + 1] = 1
                     /\ (HasLabel(df, r) \/ is_inference)
            /\ Selected \subseteq RowsOf(df)
            /\ \A k \in 1..(Len(valid_indices) - 1) :
                 valid_indices[k] < valid_indices[k + 1]

\* Inference mode: an unlabeled row with a valid window is returned, and a
\* labeled row with an invalid window is not.
C1_Witness ==
    /\ DatasetBuilt
    /\ is_inference
    /\ \E r \in Selected : ~HasLabel(tl_events_df_intersection, r)
    /\ \E r \in RowsOf(tl_events_df_intersection) :
          HasLabel(tl_events_df_intersection, r) /\ r \notin Selected

\* C2: the verdict of row r is 1 exactly when, going back from r over at most
\* HIST_LEN_FRAMES - 1 rows, a row with a token is met and that row and every
\* row met before it (the target row included) is continuous; otherwise it is
\* 0: a continuity break met first, or no token in the scanned rows.
C2_WindowVerdict ==
    DatasetBuilt =>
        LET df == tl_events_df_intersection
        IN  \A r \in RowsOf(df) :
              LET reach == Min(r, HIST_LEN_FRAMES - 2)
                  valid == \E j \in 0..reach :
                               /\ HasTokens(df, r - j)
                               /\ \A i \in 0..j : IsContinuous(df, r - i)
              IN  is_nonempty_input_present_series[r + 1] =
                      IF valid THEN 1 ELSE 0

\* One table shows the three outcomes: a target row that carries a token and
\* breaks continuity (0), a token found behind an empty continuous target row
\* (1), and a full window of empty continuous rows (0).
C2_Witness ==
    /\ DatasetBuilt
    /\ LET df == tl_events_df_intersection
           v  == is_nonempty_input_present_series
       IN  /\ \E r \in RowsOf(df) :
                 HasTokens(df, r) /\ ~IsContinuous(df, r) /\ v[r + 1] = 0
           /\ \E r \in RowsOf(df) :
                 /\ r >= 1 /\ ~HasTokens(df, r) /\ IsContinuous(df, r)
                 /\ HasTokens(df, r - 1) /\ v[r + 1] = 1
           /\ \E r \in RowsOf(df) :
                 /\ r >= HIST_LEN_FRAMES - 2
                 /\ \A i \in 0..(HIST_LEN_FRAMES - 2) :
                       ~HasTokens(df, r - i) /\ IsContinuous(df, r - i)
                 /\ v[r + 1] = 0

\* valid_hist_len has been computed.
HistLenComputed == pc \in {"valid_hist_len", "dataloader", "item"}

\* The number of consecutive continuous rows ending at row r, r included.
ContinuousRun(df, r) ==
    Cardinality({n \in 1..(r + 1) : \A i \in 0..(n - 1) : IsContinuous(df, r - i)})

\* C3: compute_last_valid_idx_for_seq never fails, and the valid_hist_len of
\* every row is the number of consecutive continuous rows ending at it, capped
\* at HIST_LEN_FRAMES - 1: 0 on a row that is not continuous, never negative
\* and never above HIST_LEN_FRAMES - 1.
C3_ValidHistLen ==
    /\ pc # "IndexError"
    /\ HistLenComputed =>
         \A r \in RowsOf(tl_events_df) :
             LET len == Iloc(tl_events_df, r).valid_hist_len
             IN  /\ len = Min(HIST_LEN_FRAMES - 1, ContinuousRun(tl_events_df, r))
                 /\ ~IsContinuous(tl_events_df, r) => len = 0
                 /\ 0 <= len /\ len <= HIST_LEN_FRAMES - 1

\* A row whose run of continuous rows is longer than the cap, and a row that
\* is not continuous.
C3_Witness ==
    /\ HistLenComputed
    /\ \E r \in RowsOf(tl_events_df) :
          /\ ContinuousRun(tl_events_df, r) > HIST_LEN_FRAMES - 1
          /\ Iloc(tl_events_df, r).valid_hist_len = HIST_LEN_FRAMES - 1
    /\ \E r \in RowsOf(tl_events_df) :
          ~IsContinuous(tl_events_df, r) /\ Iloc(tl_events_df, r).valid_hist_len = 0


\* __getitem__ has returned a sample.
SampleBuilt == pc = "item"

RECURSIVE WindowTokens(_, _, _)
\* The raw inputs of the rows r - d, r - d + 1, ..., r, oldest row first, each
\* with the distance of its row from the target row r.
WindowTokens(df, r, d) ==
    IF d < 0 THEN <<>>
    ELSE LET events == Iloc(df, r - d).rnn_inputs_raw
         IN  [j \in 1..Len(events) |->
                 [token |-> events[j][1], ohe |-> events[j][2], dist |-> d]]
             \o WindowTokens(df, r, d - 1)

\* The window of the sample of row r: its valid_hist_len rows back.
SampleWindow(df, r) == WindowTokens(df, r, Iloc(df, r).valid_hist_len)

\* C4: every raw token of the window resolves to its vocabulary index only
\* when it is in the vocabulary with a frequency of at least min_freq, and to
\* UNKNOWN (the vocabulary's size) otherwise; the lookup never fails.
C4_RareOrUnseenTokensAreUnknown ==
    SampleBuilt =>
        LET window == SampleWindow(tl_events_df_intersection, sample.row_i)
        IN  /\ sample.error # "KeyError"
            /\ sample.error = "none" =>
                 \A p \in 1..Len(window) :
                     LET token == window[p].token
                     IN  IF token \in DOMAIN train_vocab
                         THEN IF term_freq[token] >= min_freq
                              THEN sample.tokens_np[p] = train_vocab[token]
                              ELSE sample.tokens_np[p] = Cardinality(DOMAIN train_vocab)
                         ELSE sample.tokens_np[p] = Cardinality(DOMAIN train_vocab)

\* A sample with a frequent token resolved to its index and a token that has
\* an index of its own but is rare, resolved to UNKNOWN.
C4_Witness ==
    /\ SampleBuilt
    /\ sample.error = "none"
    /\ LET window == SampleWindow(tl_events_df_intersection, sample.row_i)
       IN  /\ \E p \in 1..Len(window) :
                 /\ window[p].token \in DOMAIN train_vocab
                 /\ term_freq[window[p].token] = min_freq
                 /\ sample.tokens_np[p] = train_vocab[window[p].token]
           /\ \E p \in 1..Len(window) :
                 /\ window[p].token \in DOMAIN train_vocab
                 /\ term_freq[window[p].token] < min_freq
                 /\ train_vocab[window[p].token] # sample.tokens_np[p]
                 /\ sample.tokens_np[p] = Cardinality(DOMAIN train_vocab)

\* C5: the sample of row r with valid history length h holds the tokens of
\* rows r-h, ..., r in that order, each row's tokens in the row's order, and a
\* token of row r-d has weight (d + 1) / HIST_LEN_FRAMES; target-row tokens
\* have weight 1 / HIST_LEN_FRAMES and the weights never increase along the
\* sequence.
C5_OldestFirstWithRecencyWeights ==
    SampleBuilt /\ sample.error = "none" =>
        LET window == SampleWindow(tl_events_df_intersection, sample.row_i)
        IN  /\ sample.seq_len = Len(window)
            /\ \A p \in 1..Len(window) :
                 /\ sample.tokens_np[p] =
                        TokenIdx(window[p].token, train_vocab, term_freq)
                 /\ sample.token_type_ohe_np[p] = window[p].ohe
                 /\ sample.token_timesteps_np[p] =
                        [num |-> window[p].dist + 1, den |-> HIST_LEN_FRAMES]
            /\ \A p \in 1..Len(window) :
                 window[p].dist = 0 =>
                     sample.token_timesteps_np[p] = [num |-> 1, den |-> HIST_LEN_FRAMES]
            /\ \A p, q \in 1..sample.seq_len :
                 p < q => sample.token_timesteps_np[p].num
                              >= sample.token_timesteps_np[q].num

\* A sample over a full window whose oldest row holds two different tokens.
C5_Witness ==
    /\ SampleBuilt
    /\ sample.error = "none"
    /\ Iloc(tl_events_df_intersection, sample.row_i).valid_hist_len
           = HIST_LEN_FRAMES - 1
    /\ sample.seq_len >= 3
    /\ sample.token_type_ohe_np[1] # sample.token_type_ohe_np[2]
    /\ sample.token_timesteps_np[1] = sample.token_timesteps_np[2]
    /\ sample.token_timesteps_np[1].num = HIST_LEN_FRAMES
    /\ sample.token_timesteps_np[sample.seq_len].num = 1

\* The number of raw tokens in the window of row r.
WindowTokenCount(df, r) == Len(SampleWindow(df, r))

\* The sample __getitem__ builds for row r of the dataset's table.
SampleOf(r) ==
    GetItemOf(tl_events_df_intersection, r, train_vocab, term_freq,
              tl_signal_indices, HIST_LEN_FRAMES, history_events_max)

\* The claim C6 as the specification states it: a row whose whole window holds
\* no raw token yields an all-padding sample of sequence length 0, and is
\* selected for training when it has a label.
C6_EmptyWindowYieldsPaddingSample ==
    DatasetBuilt /\ ~is_inference =>
        \A r \in RowsOf(tl_events_df_intersection) :
            WindowTokenCount(tl_events_df_intersection, r) = 0 =>
                /\ SampleOf(r).error = "none"
                /\ SampleOf(r).seq_len = 0
                /\ \A p \in 1..Len(SampleOf(r).tokens_np) :
                      SampleOf(r).tokens_np[p] = PAD_TOKEN_IDX(train_vocab)
                /\ HasLabel(tl_events_df_intersection, r) => r \in Selected

\* C6, amended: a row whose whole window holds no raw token is never selected,
\* in training or in inference mode, labeled or not, so no all-padding sample
\* is ever built; __getitem__ would raise on it.
C6_EmptyWindowNeverSelected ==
    DatasetBuilt =>
        /\ \A r \in RowsOf(tl_events_df_intersection) :
              WindowTokenCount(tl_events_df_intersection, r) = 0 =>
                  /\ r \notin Selected
                  /\ SampleOf(r).error = "ValueError"
        /\ SampleBuilt => sample.error = "none" /\ sample.seq_len >= 1

\* Training mode, a labeled continuous row whose window holds no token, in a
\* table that has tokens elsewhere and selects some other row.
C6_Witness ==
    /\ DatasetBuilt
    /\ ~is_inference
    /\ history_events_max > 0
    /\ Selected # {}
    /\ \E r \in RowsOf(tl_events_df_intersection) :
          /\ WindowTokenCount(tl_events_df_intersection, r) = 0
          /\ HasLabel(tl_events_df_intersection, r)
          /\ IsContinuous(tl_events_df_intersection, r)

\* C7: every sample built has its three sequences of length exactly
\* HIST_LEN_FRAMES x (most events in one row of the table); the first seq_len
\* positions hold the window's tokens and every later position holds PAD, a
\* zero type vector and a zero weight; seq_len never exceeds that capacity.
C7_PaddedToFixedCapacity ==
    SampleBuilt =>
        LET df == tl_events_df_intersection
            most == CHOOSE m \in 0..Len(sample.tokens_np) :
                        /\ \A r \in RowsOf(df) : Len(Iloc(df, r).rnn_inputs_raw) <= m
                        /\ \E r \in RowsOf(df) : Len(Iloc(df, r).rnn_inputs_raw) = m
            capacity == HIST_LEN_FRAMES * most
        IN  /\ sample.error = "none"
            /\ Len(sample.tokens_np) = capacity
            /\ Len(sample.token_type_ohe_np) = capacity
            /\ Len(sample.token_timesteps_np) = capacity
            /\ sample.seq_len = WindowTokenCount(df, sample.row_i)
            /\ sample.seq_len <= capacity
            /\ \A p \in 1..sample.seq_len :
                  sample.tokens_np[p] <= UNKNOWN_TOKEN_IDX(train_vocab)
            /\ \A p \in (sample.seq_len + 1)..capacity :
                  /\ sample.tokens_np[p] = Cardinality(DOMAIN train_vocab) + 1
                  /\ sample.token_type_ohe_np[p] = <<0, 0, 0, 0>>
                  /\ sample.token_timesteps_np[p].num = 0

\* A sample over a full window that fills the capacity: no padding is left.
C7_Witness ==
    /\ SampleBuilt
    /\ sample.error = "none"
    /\ sample.seq_len = Len(sample.tokens_np)
    /\ sample.seq_len >= HIST_LEN_FRAMES

-----------------------------------------------------------------------------
(* float32 values: a finite number in thousandths, NaN, or an infinity *)

Fin(n) == [kind |-> "fin", v |-> n]
NaN == [kind |-> "nan", v |-> 0]
PosInf == [kind |-> "inf", v |-> 1]
NegInf == [kind |-> "inf", v |-> -1]

\* ~(torch.isnan(x) | torch.isinf(x)).
IsFinite(x) == x.kind = "fin"

\* MulFlag leaving the flag out.
MulFlag_FlagDropped(x, flag) == x

\* x * flag for an availability flag 0.0 or 1.0: NaN stays NaN and
\* infinity * 0 is NaN.
MulFlag(x, flag) ==
    IF x.kind = "nan" THEN NaN
    ELSE IF x.kind = "inf" THEN (IF flag = 0 THEN NaN ELSE x)
    ELSE Fin(x.v * flag)

\* x + y.
Add(x, y) ==
    IF x.kind = "nan" \/ y.kind = "nan" THEN NaN
    ELSE IF x.kind = "inf" /\ y.kind = "inf"
         THEN (IF x.v = y.v THEN x ELSE NaN)
    ELSE IF x.kind = "inf" THEN x
    ELSE IF y.kind = "inf" THEN y
    ELSE Fin(x.v + y.v)

\* -x.
Neg(x) == IF x.kind = "nan" THEN NaN ELSE [kind |-> x.kind, v |-> -x.v]

RECURSIVE SumOf(_)
\* tensor.sum().
SumOf(xs) == IF xs = <<>> THEN Fin(0) ELSE Add(Head(xs), SumOf(Tail(xs)))

RECURSIVE SumFlags(_)
\* availabilities.sum(): a sum of flags 0.0 and 1.0.
SumFlags(flags) == IF flags = <<>> THEN 0 ELSE Head(flags) + SumFlags(Tail(flags))

\* A loss tensor: the value accumulated and the counts it has since been
\* divided by, in order (none: the value as accumulated).
Term(x) == [num |-> x, by |-> <<>>]

\* term /= count, for a count other than 0.
Divide(term, count) == [num |-> term.num, by |-> Append(term.by, count)]

-----------------------------------------------------------------------------
(* The masked loss of one batch, lines 559-592 and 653-688 *)

\* log(p) as nn.BCELoss takes it, clamped to >= -100, for the probabilities
\* 0, 0.5 and 1 (in thousandths).
ClampedLog(p) ==
    CASE p = 0 -> -100000
      [] p = 500 -> -693
      [] p = 1000 -> 0

\* nn.BCELoss(reduction="none") of one prediction and one target class:
\* -(y log(p) + (1 - y) log(1 - p)), always finite.
BCELoss(pred, target) ==
    Fin(-(target * ClampedLog(pred) + (1 - target) * ClampedLog(1000 - pred)))

\* Weibull(lambda, k).log_prob(tte) for three shapes of the predicted
\* distribution: at tte = 0 the density is infinite for k < 1, the float
\* computation is 0 * -inf for k = 1, and the density is 0 for k > 1; at the
\* sentinel 99.0 the power term of a steep distribution overflows.
LogProb(distr, tte) ==
    CASE tte = 0 /\ distr = "k_below_1" -> PosInf
      [] tte = 0 /\ distr = "k_is_1" -> NaN
      [] tte = 0 /\ distr = "k_above_1" -> NegInf
      [] tte = 5 /\ distr = "k_below_1" -> Fin(-2500)
      [] tte = 5 /\ distr = "k_is_1" -> Fin(-1800)
      [] tte = 5 /\ distr = "k_above_1" -> Fin(-1200)
      [] tte = 99 /\ distr = "k_below_1" -> Fin(-9000)
      [] tte = 99 /\ distr = "k_is_1" -> Fin(-40000)
      [] tte = 99 /\ distr = "k_above_1" -> NegInf

\* Lines 563-568: bce_loss_tl, the per-sample losses of one signal times the
\* availability flags.
BceLossTl(preds, true_color_classes, availabilities) ==
    [i \in 1..Len(preds) |->
        MulFlag(BCELoss(preds[i], true_color_classes[i]), availabilities[i])]

\* Lines 578-581: log_prob_all before the non-finite entries are replaced.
LogProbAll(distrs, true_ttes, availabilities) ==
    [i \in 1..Len(distrs) |->
        MulFlag(LogProb(distrs[i], true_ttes[i]), availabilities[i])]

\* Lines 582-586: NaN and infinite entries are set to 0.
ZeroNonFinite(xs) ==
    [i \in 1..Len(xs) |-> IF IsFinite(xs[i]) THEN xs[i] ELSE Fin(0)]

\* DivideIfCounted dividing whatever the count is: 0 / 0 is NaN.
DivideIfCounted_Unguarded(term, count, pass) ==
    [num |-> IF count = 0 THEN NaN ELSE term.num, by |-> Append(term.by, count)]

\* Lines 571-572 and 589-590 (train: if count > 0), 665-666 and 683-684
\* (validation: if count), 812-813 and 830-831 (predict: if count > 0).
DivideIfCounted(term, count, pass) ==
    IF (pass \in {"train", "predict"} /\ count > 0) \/ (pass = "val" /\ count # 0)
    THEN Divide(term, count)
    ELSE term

\* Lines 592 and 832 (train and predict: loss_bce + loss_tte_log_prob) and
\* lines 686-688 (validation: loss_bce + loss_tte_log_prob / 2), kept as the
\* two summands.
CombinedLoss(bce, tte, pass) ==
    [bce |-> bce, tte |-> IF pass = "val" THEN Divide(tte, 2) ELSE tte]

\* The column of a batch for one signal.
Column(field, tl_id) == [i \in 1..Len(batch) |-> batch[i][field][tl_id]]


\* Largest batch explored (--batch-size is 128 by default; the last batch of a
\* pass may hold any smaller number of samples).
MaxBatch == 2

\* The label mappings of the rows a batch is drawn from: class and
\* time-to-event of signal 1; both classes and a time-to-event of 0 for
\* signal 2; the class of signal 2 alone; and, in the predict pass only, whose
\* loader is built with is_inference (lines 467-469, 864-872), nothing known.
BothClassesKnown == [classes |-> (1 :> 0) @@ (2 :> 1), tte |-> (2 :> 0)]
Class2Known == [classes |-> (2 :> 1), tte |-> EmptyDict]
BatchLabelKinds(pass) ==
    {Signal1Known, BothClassesKnown, Class2Known}
    \cup (IF pass = "predict" THEN {NoLabels} ELSE {})

\* Lines 374-395: the label record __getitem__ returns for a row with the
\* label mappings kind.
LabelRecord(kind) ==
    LabelsOf(<<RawRow(0, intersection_idx, <<TokA>>, kind.classes, kind.tte)>>,
             0, tl_signal_indices)

\* The predicted green probabilities explored, in thousandths: outputs of
\* the sigmoid of forward (lines 271-274), so within [0, 1].
PredVals == {0, 500, 1000}

\* The predicted distributions explored.
DistrVals == {"k_below_1", "k_is_1", "k_above_1"}

\* What the second batch and the model's prediction for it may hold where the
\* flag is 0: <<prediction, class>> and <<distribution, time-to-event>>.
ClassPerturbations == {<<0, 1>>, <<500, 1>>}
TtePerturbations == {<<"k_below_1", 0>>, <<"k_above_1", 5>>}

\* The choices of the second batch for one signal: where the flag is 1 it
\* holds what the first batch holds, so the choice there is immaterial.
Perturbed(availabilities, perturbations) ==
    {other \in [1..Len(availabilities) -> perturbations] :
        \A i \in 1..Len(availabilities) :
            availabilities[i] = 1 =>
                other[i] = CHOOSE one \in perturbations : TRUE}

\* A batch is delivered and the accumulators of lines 559-560 (653-654,
\* 800-801) are set.
InitLoss ==
    /\ pc = "bce_loop"
    /\ mode \in {"train", "val", "predict"}
    /\ \E n \in 1..MaxBatch : \E kinds \in [1..n -> BatchLabelKinds(mode)] :
          batch = [i \in 1..n |-> LabelRecord(kinds[i])]
    /\ tl_pos = 1
    /\ loss_bce = Term(Fin(0))
    /\ loss_bce_terms_count = 0
    /\ loss_tte_log_prob = Term(Fin(0))
    /\ loss_tte_log_prob_terms_count = 0
    /\ loss = <<>>
    /\ zeroed_available = 0
    /\ alt_loss_bce = Term(Fin(0))
    /\ alt_loss_tte_log_prob = Term(Fin(0))
    /\ alt_differs = FALSE
    /\ DataIdle
    /\ GradIdle
    /\ RunIdle

\* Lines 561-570 (655-664, 802-811): one turn of the loop over tl_2_color_class, for
\* the predictions preds of the signal at tl_pos. The second batch holds
\* other[i] where the flag is 0.
BceTurn(preds, other) ==
    /\ pc = "bce_loop"
    /\ tl_pos <= Len(tl_signal_indices)
    /\ LET tl_id == tl_signal_indices[tl_pos]
           availabilities == Column("classes_availabilities", tl_id)
           true_color_classes == Column("all_true_classes", tl_id)
           alt_preds == [i \in 1..Len(batch) |->
                            IF availabilities[i] = 1 THEN preds[i] ELSE other[i][1]]
           alt_classes == [i \in 1..Len(batch) |->
                              IF availabilities[i] = 1 THEN true_color_classes[i]
                              ELSE other[i][2]]
       IN  /\ loss_bce' = [loss_bce EXCEPT !.num =
                  Add(@, SumOf(BceLossTl(preds, true_color_classes, availabilities)))]
           /\ alt_loss_bce' = [alt_loss_bce EXCEPT !.num =
                  Add(@, SumOf(BceLossTl(alt_preds, alt_classes, availabilities)))]
           /\ loss_bce_terms_count' = loss_bce_terms_count + SumFlags(availabilities)
           /\ alt_differs' = (alt_differs \/ \E i \in 1..Len(batch) :
                                 availabilities[i] = 0)
    /\ tl_pos' = tl_pos + 1
    /\ UNCHANGED <<pc, batch, mode, loss_tte_log_prob,
                   loss_tte_log_prob_terms_count, loss,
                   zeroed_available, alt_loss_tte_log_prob>>
    /\ UNCHANGED <<dataVars_rest, gradVars, runVars>>

\* Lines 571-575 (665-669, 812-816): the classification term is averaged and the
\* accumulators of the time-to-event term are set.
BceAverage ==
    /\ pc = "bce_loop"
    /\ tl_pos > Len(tl_signal_indices)
    /\ loss_bce' = DivideIfCounted(loss_bce, loss_bce_terms_count, mode)
    /\ alt_loss_bce' = DivideIfCounted(alt_loss_bce, loss_bce_terms_count, mode)
    /\ pc' = "tte_loop"
    /\ tl_pos' = 1
    /\ UNCHANGED <<batch, mode, loss_bce_terms_count, loss_tte_log_prob,
                   loss_tte_log_prob_terms_count, loss, zeroed_available,
                   alt_loss_tte_log_prob, alt_differs>>
    /\ UNCHANGED <<dataVars_rest, gradVars, runVars>>

\* Lines 576-588 (670-682, 817-829): one turn of the loop over tl_2_tte_distr, for the
\* predicted distributions distrs of the signal at tl_pos.
TteTurn(distrs, other) ==
    /\ pc = "tte_loop"
    /\ tl_pos <= Len(tl_signal_indices)
    /\ LET tl_id == tl_signal_indices[tl_pos]
           availabilities == Column("tte_availabilities", tl_id)
           true_ttes == Column("all_tte", tl_id)
           alt_distrs == [i \in 1..Len(batch) |->
                             IF availabilities[i] = 1 THEN distrs[i] ELSE other[i][1]]
           alt_ttes == [i \in 1..Len(batch) |->
                           IF availabilities[i] = 1 THEN true_ttes[i] ELSE other[i][2]]
           log_prob_all == LogProbAll(distrs, true_ttes, availabilities)
       IN  /\ loss_tte_log_prob' = [loss_tte_log_prob EXCEPT !.num =
                  Add(@, Neg(SumOf(ZeroNonFinite(log_prob_all))))]
           /\ alt_loss_tte_log_prob' = [alt_loss_tte_log_prob EXCEPT !.num =
                  Add(@, Neg(SumOf(ZeroNonFinite(
                      LogProbAll(alt_distrs, alt_ttes, availabilities)))))]
           /\ loss_tte_log_prob_terms_count' =
                  loss_tte_log_prob_terms_count + SumFlags(availabilities)
           /\ zeroed_available' = zeroed_available +
                  Cardinality({i \in 1..Len(batch) :
                      availabilities[i] = 1 /\ ~IsFinite(log_prob_all[i])})
           /\ alt_differs' = (alt_differs \/ \E i \in 1..Len(batch) :
                                 availabilities[i] = 0)
    /\ tl_pos' = tl_pos + 1
    /\ UNCHANGED <<pc, batch, mode, loss_bce, loss_bce_terms_count, loss,
                   alt_loss_bce>>
    /\ UNCHANGED <<dataVars_rest, gradVars, runVars>>

\* Lines 589-592 (683-688, 830-832): the time-to-event term is averaged and the two
\* terms are combined.
TteAverageAndCombine ==
    /\ pc = "tte_loop"
    /\ tl_pos > Len(tl_signal_indices)
    /\ loss_tte_log_prob' =
           DivideIfCounted(loss_tte_log_prob, loss_tte_log_prob_terms_count, mode)
    /\ alt_loss_tte_log_prob' =
           DivideIfCounted(alt_loss_tte_log_prob, loss_tte_log_prob_terms_count, mode)
    /\ loss' = CombinedLoss(loss_bce, loss_tte_log_prob', mode)
    /\ pc' = "loss"
    /\ UNCHANGED <<batch, mode, tl_pos, loss_bce, loss_bce_terms_count,
                   loss_tte_log_prob_terms_count, zeroed_available,
                   alt_loss_bce, alt_differs>>
    /\ UNCHANGED <<dataVars_rest, gradVars, runVars>>

NextLoss ==
    \/ /\ pc = "bce_loop" /\ tl_pos <= Len(tl_signal_indices)
       /\ \E preds \in [1..Len(batch) -> PredVals] :
          \E other \in Perturbed(Column("classes_availabilities",
                                        tl_signal_indices[tl_pos]),
                                 ClassPerturbations) : BceTurn(preds, other)
    \/ BceAverage
    \/ /\ pc = "tte_loop" /\ tl_pos <= Len(tl_signal_indices)
       /\ \E distrs \in [1..Len(batch) -> DistrVals] :
          \E other \in Perturbed(Column("tte_availabilities",
                                        tl_signal_indices[tl_pos]),
                                 TtePerturbations) : TteTurn(distrs, other)
    \/ TteAverageAndCombine

SpecLoss == InitLoss /\ [][NextLoss]_vars

-----------------------------------------------------------------------------
(* The gradient hook of IntersectionModel and the backward pass of train *)

\* Longest gradient tensor explored.
MaxGradLen == 3

\* The bound of torch.clamp(grad, -0.25, 0.25), in thousandths.
GradClamp == 250

\* clip_value of train, the maximal joint norm of the gradients.
clip_value == 5

\* The gradient entries explored, in thousandths: those of the tensors of one
\* parameter and those the other parameters hold throughout.
GradVals == {NaN, PosInf, NegInf, Fin(1500), Fin(100)}
OtherGradVals == {Fin(-1500), Fin(-100)}

\* The gradient tensors explored.
GradTensors == UNION {[1..n -> GradVals] : n \in 1..MaxGradLen}

\* f"{prefix}_{tl_idx}".
Attr(prefix, tl_idx) == prefix \o "_" \o ToString(tl_idx)

\* n_layers of the script.
n_layers == 2

\* The parameters of nn.LSTM(num_layers=n_layers, bidirectional=True).
LstmParameterNames ==
    {kind \o "_l" \o ToString(layer) \o suffix :
        kind \in {"weight_ih", "weight_hh", "bias_ih", "bias_hh"},
        layer \in 0..(n_layers - 1),
        suffix \in {"", "_reverse"}}

\* self.parameters() once lines 169-196 have created the layers: the
\* embedding, the LSTM and three linear heads per signal.
NamedParameters(intersection_tl_signals) ==
    {<<"embedding", "weight">>}
    \cup {<<"lstm", n>> : n \in LstmParameterNames}
    \cup {<<Attr(head, intersection_tl_signals[k]), n>> :
             head \in {"fc_color", "fc_tte_k", "fc_tte_lambda"},
             k \in 1..Len(intersection_tl_signals),
             n \in {"weight", "bias"}}

\* param.requires_grad: nothing in the module freezes a parameter.
requires_grad(param) == TRUE

\* torch.clamp(x, lo, hi) of one entry: NaN stays NaN, an infinity becomes
\* the bound on its side.
Clamp(x, lo, hi) ==
    IF x.kind = "nan" THEN NaN
    ELSE IF x.kind = "inf" THEN Fin(IF x.v > 0 THEN hi ELSE lo)
    ELSE Fin(Max(lo, Min(hi, x.v)))

\* clip_and_replace_explosures clamping before it replaces.
clip_and_replace_explosures_ClampFirst(g) ==
    [i \in 1..Len(g) |->
        LET clamped == Clamp(g[i], -GradClamp, GradClamp)
        IN  IF IsFinite(g[i]) THEN clamped
            ELSE IF g[i].kind = "inf" THEN clamped ELSE Fin(0)]

\* Lines 198-203: NaN and infinite entries are set to 0, then every entry is
\* clamped to [-0.25, 0.25].
clip_and_replace_explosures(g) ==
    [i \in 1..Len(g) |->
        Clamp(IF IsFinite(g[i]) THEN g[i] ELSE Fin(0), -GradClamp, GradClamp)]

RECURSIVE SumSquares(_)
\* The sum of the squares of the entries of a tensor of finite entries.
SumSquares(g) ==
    IF g = <<>> THEN 0 ELSE Head(g).v * Head(g).v + SumSquares(Tail(g))

RECURSIVE SumSquaresOver(_, _)
\* The square of the joint 2-norm of the gradients grads of the parameters ps.
SumSquaresOver(ps, grads) ==
    IF ps = {} THEN 0
    ELSE LET p == CHOOSE q \in ps : TRUE
         IN  SumSquares(grads[p]) + SumSquaresOver(ps \ {p}, grads)

\* The integer part of the square root of n.
ISqrt(n) == CHOOSE r \in 0..n : r * r <= n /\ n < (r + 1) * (r + 1)

\* nn.utils.clip_grad_norm_: the gradients are scaled by max_norm / norm when
\* their joint norm exceeds max_norm (entries and norm in thousandths).
ClipGradNorm(ps, grads, max_norm) ==
    LET sumsq == SumSquaresOver(ps, grads)
        bound == max_norm * 1000
    IN  IF sumsq <= bound * bound THEN grads
        ELSE [p \in ps |->
                [i \in 1..Len(grads[p]) |->
                    Fin((grads[p][i].v * bound) \div ISqrt(sumsq))]]

\* The script before line 875 builds the model.
InitGrad ==
    /\ pc = "construct"
    /\ DataIdle
    /\ LossIdle
    /\ GradIdle
    /\ RunIdle

\* Lines 154-217: IntersectionModel.__init__ creates the layers and registers
\* the hook on every parameter that requires a gradient.
ConstructModel ==
    /\ pc = "construct"
    /\ parameters' = NamedParameters(tl_signal_indices)
    /\ hooked' = {param \in parameters' : requires_grad(param)}
    /\ pc' = "model"
    /\ UNCHANGED <<raw_grad, grad, dataVars_rest, lossVars, runVars>>

\* Line 595: optimizer.zero_grad() before the backward pass of each batch.
ZeroGrad ==
    /\ pc \in {"model", "step"}
    /\ raw_grad' = <<>>
    /\ grad' = <<>>
    /\ pc' = "zero_grad"
    /\ UNCHANGED <<parameters, hooked, dataVars_rest, lossVars, runVars>>

\* Line 596: loss.backward(). Autograd computes a gradient for every
\* parameter (g for the parameter odd, entries v for the others) and stores
\* in param.grad what the parameter's hook returns.
Backward(odd, g, v) ==
    /\ pc = "zero_grad"
    /\ LET computed == [param \in parameters |->
                            IF param = odd THEN g ELSE <<v>>]
       IN  /\ raw_grad' = computed
           /\ grad' = [param \in parameters |->
                          IF param \in hooked
                          THEN clip_and_replace_explosures(computed[param])
                          ELSE computed[param]]
    /\ pc' = "backward"
    /\ UNCHANGED <<parameters, hooked, dataVars_rest, lossVars, runVars>>

\* Line 597: the gradients are clipped jointly.
ClipGradNormStep ==
    /\ pc = "backward"
    /\ grad' = ClipGradNorm(parameters, grad, clip_value)
    /\ pc' = "clip_grad_norm"
    /\ UNCHANGED <<parameters, hooked, raw_grad, dataVars_rest, lossVars,
                   runVars>>

\* Line 598: optimizer.step() consumes param.grad.
OptimizerStep ==
    /\ pc = "clip_grad_norm"
    /\ pc' = "step"
    /\ UNCHANGED <<gradVars, dataVars_rest, lossVars, runVars>>

NextGrad ==
    \/ ConstructModel
    \/ ZeroGrad
    \/ /\ pc = "zero_grad"
       /\ \E odd \in parameters : \E g \in GradTensors : \E v \in OtherGradVals :
             Backward(odd, g, v)
    \/ ClipGradNormStep
    \/ OptimizerStep

SpecGrad == InitGrad /\ [][NextGrad]_vars

-----------------------------------------------------------------------------
(* The training loop of train, with the EarlyStopping of utils.pytorchtools *)

\* Largest --epoch-max explored, and largest numbers of batches of the two
\* loaders.
MaxEpochs == 5
MaxTrnBatches == 2
MaxValBatches == 2

\* patience of the EarlyStopping the script builds.
patience == 4

\* The losses loss.item() of a validation batch explored: the negative
\* log-likelihood may be negative, and two losses may cancel.
ValLossVals == {-1, 1}

\* The gradients autograd computes for a training batch explored, the same
\* for every parameter.
TrainGradTensors == {<<NaN, NegInf, Fin(1500)>>}

RECURSIVE GCD(_, _)
\* The greatest common divisor of a >= 0 and b >= 0.
GCD(a, b) == IF b = 0 THEN a ELSE GCD(b, a % b)

RECURSIVE SumInts(_)
SumInts(xs) == IF xs = <<>> THEN 0 ELSE Head(xs) + SumInts(Tail(xs))

\* np.mean of a list, as a fraction in lowest terms; of the empty list, NaN
\* (denominator 0).
Mean(xs) ==
    IF xs = <<>> THEN [num |-> 0, den |-> 0]
    ELSE LET total == SumInts(xs)
             d == GCD(IF total < 0 THEN -total ELSE total, Len(xs))
         IN  [num |-> total \div d, den |-> Len(xs) \div d]

\* a < b for two means: False when either is NaN.
MeanLess(a, b) ==
    /\ a.den > 0
    /\ b.den > 0
    /\ a.num * b.den < b.num * a.den

\* m == 0 for a mean: False for NaN.
MeanIsZero(m) == m.den > 0 /\ m.num = 0

\* EarlyStopping(patience=...): nothing seen, nothing stored.
EarlyStoppingNew(p) ==
    [patience |-> p, best |-> <<>>, counter |-> 0, early_stop |-> FALSE,
     checkpoint |-> <<>>]

\* early_stopping(val_loss, model): the checkpoint is stored when the loss
\* improves on the best seen (or nothing was seen yet); otherwise the counter
\* of epochs without improvement grows and, at patience, termination is
\* signalled.
EarlyStoppingCall(es, val_loss, model) ==
    IF es.best = <<>> \/ MeanLess(val_loss, es.best[1])
    THEN [es EXCEPT !.best = <<val_loss>>, !.counter = 0,
                    !.checkpoint = <<model>>]
    ELSE [es EXCEPT !.counter = @ + 1,
                    !.early_stop = @ \/ (es.counter + 1 >= es.patience)]

\* LossValMean taking the loss of the last batch.
LossValMean_LastBatch(losses) ==
    IF losses = <<>> THEN Mean(losses) ELSE Mean(<<losses[Len(losses)]>>)

\* Line 697: loss_val_mean = np.mean(losses_val_all).
LossValMean(losses) == Mean(losses)

\* StopDecision without the test for a loss of zero.
StopDecision_PatienceOnly(early_stop, loss_val_mean) == early_stop

\* Line 703: early_stopping.early_stop or loss_val_mean == 0.
StopDecision(early_stop, loss_val_mean) ==
    early_stop \/ MeanIsZero(loss_val_mean)

\* InRange running one epoch more.
InRange_OneMore(e, n) == e <= n

\* Line 519: for epoch in range(epoch_max) has a next value.
InRange(e, n) == e < n

\* AfterLoss going on to the next batch when no label is available.
AfterLoss_SkipsUncounted(counted) ==
    IF counted THEN "loss" ELSE "step"

\* Lines 592-595: whatever the counts of the batch, the script stands after
\* its loss and the backward pass follows.
AfterLoss(counted) == "loss"

\* The record of the evaluations before the first.
NoEvals == [best |-> <<>>, best_epochs |-> {}, stale |-> 0, last |-> <<>>]

\* The record of the evaluations after the evaluation of epoch e gave the
\* mean loss m: stale counts the latest consecutive evaluations that did not
\* improve on the best before them.
Evaluated(ev, m, e) ==
    IF ev.best = <<>> \/ MeanLess(m, ev.best[1])
    THEN [best |-> <<m>>, best_epochs |-> {e}, stale |-> 0, last |-> <<m>>]
    ELSE [ev EXCEPT !.best_epochs = IF m = ev.best[1] THEN @ \cup {e} ELSE @,
                    !.stale = @ + 1,
                    !.last = <<m>>]

\* Lines 875-903: the model and the EarlyStopping are built and train is
\* called with the two loaders.
InitTrain ==
    /\ pc = "epoch"
    /\ epoch_max \in 0..MaxEpochs
    /\ n_trn \in 0..MaxTrnBatches
    /\ val_counted \in UNION {[1..n -> BOOLEAN] : n \in 0..MaxValBatches}
    /\ epoch = 0
    /\ trn_pos = 0
    /\ val_pos = 0
    /\ trn_counted = FALSE
    /\ losses_val_all = <<>>
    /\ early_stopping = EarlyStoppingNew(patience)
    /\ steps = <<>>
    /\ optimizer_steps = 0
    /\ batches_fetched = 0
    /\ evals = NoEvals
    /\ parameters = NamedParameters(tl_signal_indices)
    /\ hooked = {param \in parameters : requires_grad(param)}
    /\ raw_grad = <<>>
    /\ grad = <<>>
    /\ DataIdle
    /\ LossIdle
    /\ ArtifactIdle
    /\ PredictIdle

\* What the training loop leaves alone.
trainRest == <<dataVars_rest, lossVars, parameters, hooked, epoch_max, n_trn,
               val_counted, artifactVars, predictVars>>

\* Lines 519-523: the next epoch begins.
EpochBegin ==
    /\ pc = "epoch"
    /\ InRange(epoch, epoch_max)
    /\ trn_pos' = 0
    /\ pc' = "trn_loop"
    /\ UNCHANGED <<trainRest, raw_grad, grad, epoch, val_pos, trn_counted,
                   losses_val_all, early_stopping, steps, optimizer_steps,
                   batches_fetched, evals>>

\* Line 519: range(epoch_max) is exhausted and train returns.
TrainReturns ==
    /\ pc = "epoch"
    /\ ~InRange(epoch, epoch_max)
    /\ pc' = "exhausted"
    /\ UNCHANGED <<trainRest, raw_grad, grad, epoch, trn_pos, val_pos,
                   trn_counted, losses_val_all, early_stopping, steps,
                   optimizer_steps, batches_fetched, evals>>

\* Lines 525-592: the next training batch is fetched and its loss computed;
\* counted tells whether any of its availability counts is above 0.
TrnBatch(counted) ==
    /\ pc = "trn_loop"
    /\ trn_pos < n_trn
    /\ trn_pos' = trn_pos + 1
    /\ batches_fetched' = batches_fetched + 1
    /\ trn_counted' = counted
    /\ steps' = <<>>
    /\ pc' = AfterLoss(counted)
    /\ UNCHANGED <<trainRest, raw_grad, grad, epoch, val_pos, losses_val_all,
                   early_stopping, optimizer_steps, evals>>

\* Line 595: optimizer.zero_grad().
TrnZeroGrad ==
    /\ pc = "loss"
    /\ raw_grad' = <<>>
    /\ grad' = <<>>
    /\ steps' = Append(steps, "zero_grad")
    /\ pc' = "zero_grad"
    /\ UNCHANGED <<trainRest, epoch, trn_pos, val_pos, trn_counted,
                   losses_val_all, early_stopping, optimizer_steps,
                   batches_fetched, evals>>

\* Line 596: loss.backward(); autograd computes g for every parameter and
\* param.grad holds what the parameter's hook returns.
TrnBackward(g) ==
    /\ pc = "zero_grad"
    /\ raw_grad' = [param \in parameters |-> g]
    /\ grad' = [param \in parameters |->
                   IF param \in hooked THEN clip_and_replace_explosures(g)
                   ELSE g]
    /\ steps' = Append(steps, "backward")
    /\ pc' = "backward"
    /\ UNCHANGED <<trainRest, epoch, trn_pos, val_pos, trn_counted,
                   losses_val_all, early_stopping, optimizer_steps,
                   batches_fetched, evals>>

\* Line 597: nn.utils.clip_grad_norm_ over all parameters.
TrnClipGradNorm ==
    /\ pc = "backward"
    /\ grad' = ClipGradNorm(parameters, grad, clip_value)
    /\ steps' = Append(steps, "clip_grad_norm")
    /\ pc' = "clip_grad_norm"
    /\ UNCHANGED <<trainRest, raw_grad, epoch, trn_pos, val_pos, trn_counted,
                   losses_val_all, early_stopping, optimizer_steps,
                   batches_fetched, evals>>

\* Line 598: optimizer.step().
TrnOptimizerStep ==
    /\ pc = "clip_grad_norm"
    /\ optimizer_steps' = optimizer_steps + 1
    /\ steps' = Append(steps, "step")
    /\ pc' = "step"
    /\ UNCHANGED <<trainRest, raw_grad, grad, epoch, trn_pos, val_pos,
                   trn_counted, losses_val_all, early_stopping,
                   batches_fetched, evals>>

\* Lines 600-609: the losses of the batch are noted for the printed averages
\* and the loop goes on, no batch at hand.
TrnBatchEnd ==
    /\ pc = "step"
    /\ trn_counted' = FALSE
    /\ steps' = <<>>
    /\ pc' = "trn_loop"
    /\ UNCHANGED <<trainRest, raw_grad, grad, epoch, trn_pos, val_pos,
                   losses_val_all, early_stopping,
                   optimizer_steps, batches_fetched, evals>>

\* Lines 610-618: the training batches are exhausted; the validation pass
\* begins with empty lists.
TrnLoopEnd ==
    /\ pc = "trn_loop"
    /\ trn_pos = n_trn
    /\ val_pos' = 0
    /\ losses_val_all' = <<>>
    /\ pc' = "val_loop"
    /\ UNCHANGED <<trainRest, raw_grad, grad, epoch, trn_pos, trn_counted,
                   early_stopping, steps, optimizer_steps, batches_fetched,
                   evals>>

\* Lines 619-695: the next validation batch is fetched and its loss computed
\* and, if any of its counts is above 0, collected.
ValBatch(loss_item) ==
    /\ pc = "val_loop"
    /\ val_pos < Len(val_counted)
    /\ val_pos' = val_pos + 1
    /\ losses_val_all' = IF val_counted[val_pos + 1]
                         THEN Append(losses_val_all, loss_item)
                         ELSE losses_val_all
    /\ UNCHANGED <<pc, trainRest, raw_grad, grad, epoch, trn_pos, trn_counted,
                   early_stopping, steps, optimizer_steps, batches_fetched,
                   evals>>

\* Lines 697-704: the validation batches are exhausted; the mean loss goes to
\* the EarlyStopping and the loop is left or goes on.
EpochEnd ==
    /\ pc = "val_loop"
    /\ val_pos = Len(val_counted)
    /\ LET loss_val_mean == LossValMean(losses_val_all)
           called == EarlyStoppingCall(early_stopping, loss_val_mean, epoch)
       IN  /\ early_stopping' = called
           /\ evals' = Evaluated(evals, Mean(losses_val_all), epoch)
           /\ IF StopDecision(called.early_stop, loss_val_mean)
              THEN pc' = "early_stopped" /\ epoch' = epoch
              ELSE pc' = "epoch" /\ epoch' = epoch + 1
    /\ UNCHANGED <<trainRest, raw_grad, grad, trn_pos, val_pos, trn_counted,
                   losses_val_all, steps, optimizer_steps, batches_fetched>>

NextTrain ==
    \/ EpochBegin
    \/ TrainReturns
    \/ \E counted \in BOOLEAN : TrnBatch(counted)
    \/ TrnZeroGrad
    \/ \E g \in TrainGradTensors : TrnBackward(g)
    \/ TrnClipGradNorm
    \/ TrnOptimizerStep
    \/ TrnBatchEnd
    \/ TrnLoopEnd
    \/ /\ pc = "val_loop"
       /\ \E loss_item \in ValLossVals : ValBatch(loss_item)
    \/ EpochEnd

SpecTrain == InitTrain /\ [][NextTrain]_vars

-----------------------------------------------------------------------------
(* The artifacts of a fold: lines 113-150 and 887-909 *)

\* Largest --fold-i explored. The option takes any string (line 31); predict
\* mode converts it with int(), so the model runs the script on the folds
\* 0..MaxFold.
MaxFold == 3

Folds == 0..MaxFold

\* The three files of a fold under outputs/tl_predict_checkpoints.
Artifacts == {"train_vocab", "term_freq", "combined_loss_checkpoint"}

\* intersection_{intersection_idx}_fold_{fold}_{artifact}
Path(artifact, fold) == <<artifact, fold>>

Paths == {Path(a, f) : a \in Artifacts, f \in Folds}

\* Line 140: the fold whose vocabulary and term frequencies predict mode
\* reads.
VocabModelFold(f) == (f + 1) % 2

\* Line 905: the fold whose checkpoint predict mode reads.
CheckpointModelFold_OwnFold(f) == f

CheckpointModelFold(f) == (f + 1) % 2

\* Lines 130, 135: the fold in the names of the files training mode writes.
VocabSaveFold(f) == f

\* Line 888: the fold in model_checkpoint_path of training mode.
CheckpointSaveFold(f) == f

NoFile == <<>>

\* The files earlier training runs left: a run of fold g writes its
\* vocabulary and its term frequencies, and its checkpoint once an epoch was
\* evaluated.
DiskAfter(trained, checkpointed) ==
    [p \in Paths |->
        IF p[1] = "combined_loss_checkpoint"
        THEN IF p[2] \in checkpointed THEN <<p[2]>> ELSE NoFile
        ELSE IF p[2] \in trained THEN <<p[2]>> ELSE NoFile]

\* Lines 25-43: the options are parsed.
InitScript ==
    /\ pc = "script"
    /\ fold_i \in Folds
    /\ perform_prediction \in BOOLEAN
    /\ \E trained \in SUBSET Folds : \E checkpointed \in SUBSET trained :
           disk = DiskAfter(trained, checkpointed)
    /\ loaded = [a \in Artifacts |-> NoFile]
    /\ written = {}
    /\ DataIdle
    /\ LossIdle
    /\ GradIdle
    /\ TrainIdle
    /\ PredictIdle

scriptRest == <<dataVars_rest, lossVars, gradVars, trainVars, predictVars,
                fold_i, perform_prediction>>

\* open(path, "wb") and pickle.dump, or torch.save.
Save(d, artifact, fold, writer) == [d EXCEPT ![Path(artifact, fold)] = <<writer>>]

\* Lines 113-133: training mode builds the vocabulary and writes it.
SaveVocab ==
    /\ pc = "script"
    /\ ~perform_prediction
    /\ disk' = Save(disk, "train_vocab", VocabSaveFold(fold_i), fold_i)
    /\ written' = written \cup {Path("train_vocab", VocabSaveFold(fold_i))}
    /\ pc' = "vocab_saved"
    /\ UNCHANGED <<scriptRest, loaded>>

\* Lines 134-138: training mode writes the term frequencies.
SaveTermFreq ==
    /\ pc = "vocab_saved"
    /\ disk' = Save(disk, "term_freq", VocabSaveFold(fold_i), fold_i)
    /\ written' = written \cup {Path("term_freq", VocabSaveFold(fold_i))}
    /\ pc' = "vocab_ready"
    /\ UNCHANGED <<scriptRest, loaded>>

\* open(path, "rb") and pickle.load, or torch.load: a missing file raises
\* FileNotFoundError and the script ends.
Load(artifact, fold, then) ==
    IF Path(artifact, fold) \in DOMAIN disk /\ disk[Path(artifact, fold)] # NoFile
    THEN /\ loaded' = [loaded EXCEPT ![artifact] = disk[Path(artifact, fold)]]
         /\ pc' = then
    ELSE /\ loaded' = loaded
         /\ pc' = "FileNotFoundError"

\* Lines 140-145: predict mode reads the vocabulary.
LoadVocab ==
    /\ pc = "script"
    /\ perform_prediction
    /\ Load("train_vocab", VocabModelFold(fold_i), "vocab_loaded")
    /\ UNCHANGED <<scriptRest, disk, written>>

\* Lines 146-150: predict mode reads the term frequencies.
LoadTermFreq ==
    /\ pc = "vocab_loaded"
    /\ Load("term_freq", VocabModelFold(fold_i), "vocab_ready")
    /\ UNCHANGED <<scriptRest, disk, written>>

\* Lines 887-903: training mode hands EarlyStopping model_checkpoint_path and
\* calls train; EarlyStopping writes the checkpoint there at its first call,
\* and again on every improvement, so the file is written once an epoch was
\* evaluated.
TrainCheckpoints(evaluated) ==
    /\ pc = "vocab_ready"
    /\ ~perform_prediction
    /\ IF evaluated
       THEN /\ disk' = Save(disk, "combined_loss_checkpoint",
                            CheckpointSaveFold(fold_i), fold_i)
            /\ written' = written \cup
                   {Path("combined_loss_checkpoint", CheckpointSaveFold(fold_i))}
       ELSE UNCHANGED <<disk, written>>
    /\ pc' = "trained"
    /\ UNCHANGED <<scriptRest, loaded>>

\* Lines 905-907: predict mode reads the checkpoint.
LoadCheckpoint ==
    /\ pc = "vocab_ready"
    /\ perform_prediction
    /\ Load("combined_loss_checkpoint", CheckpointModelFold(fold_i),
            "checkpoint_loaded")
    /\ UNCHANGED <<scriptRest, disk, written>>

NextScript ==
    \/ SaveVocab
    \/ SaveTermFreq
    \/ LoadVocab
    \/ LoadTermFreq
    \/ \E evaluated \in BOOLEAN : TrainCheckpoints(evaluated)
    \/ LoadCheckpoint

SpecScript == InitScript /\ [][NextScript]_vars

-----------------------------------------------------------------------------
(* predict: lines 707-861 *)

\* Most samples in predict's dataset.
MaxSamples == 3

\* Largest --batch-size explored.
MaxBatchSize == 2

\* The scene and frame identifiers explored; two samples may share them.
IdVals == {0, 1}

\* Lines 724-728: the signal ids read back from the names of the fc_tte_k_
\* heads, in the order lines 187-194 registered them.
TrafficLightIndices(intersection_tl_signals) == intersection_tl_signals

\* IntersectionModel.forward with output_mode_with_percentiles=True, on one
\* row of the batch: the heads of every signal are applied to the hidden
\* state of that row (lines 270-295), so what is returned for a row depends
\* on that row's sample alone. The values stand for the numbers the heads
\* give for the sample.
GreenProb(s, tl_id) == <<"green_prob", s, tl_id>>

\* The row of tl_2_tte_mode_quantiles[tl_id]: torch.cat((tte_mode,
\* tte_25th_percentile, tte_75th_percentile), dim=1), lines 290-292.
TteModeQuantiles(s, tl_id) ==
    <<<<"tte_mode", s, tl_id>>, <<"tte_25th_perc", s, tl_id>>,
      <<"tte_75th_perc", s, tl_id>>>>

\* xs[:, c] of a two-dimensional array, c counted from 0.
ColumnOf(rows, c) == [i \in 1..Len(rows) |-> rows[i][c + 1]]

\* list.extend
Extend_KeepsLast(list, values) == values

Extend(list, values) == list \o values

\* d[key] of a defaultdict(list).
DefaultList(d, key) == IF key \in DOMAIN d THEN d[key] ELSE <<>>

\* d[key].extend(values) of a defaultdict(list).
ExtendAt(d, key, values) ==
    [k \in DOMAIN d \cup {key} |->
        IF k = key THEN Extend(DefaultList(d, key), values) ELSE d[k]]

\* for tl_id, values in items: d[tl_id].extend(values[:, c]), over the
\* signals in order.
RECURSIVE ExtendAll(_, _, _, _)
ExtendAll(d, tl_ids, valuesOf, k) ==
    IF k > Len(tl_ids) THEN d
    ELSE ExtendAll(ExtendAt(d, tl_ids[k], valuesOf[tl_ids[k]]), tl_ids,
                   valuesOf, k + 1)

\* The batches a DataLoader may deliver next: batch_size of the samples not
\* yet delivered, or all of them when fewer are left, in any order
\* (get_dataloader's shuffle defaults to True, line 476).
Orderings(S) ==
    {q \in [1..Cardinality(S) -> S] : \A i, j \in 1..Cardinality(S) :
                                          i # j => q[i] # q[j]}

NextBatches(left, size) ==
    UNION {Orderings(B) : B \in {C \in SUBSET left :
               Cardinality(C) = Min(size, Cardinality(left))}}

\* pd.DataFrame(values_dict): columns of unequal length raise ValueError.
DataFrame(values_dict) ==
    IF \A c, d \in DOMAIN values_dict : Len(values_dict[c]) = Len(values_dict[d])
    THEN [raised |-> "", columns |-> values_dict]
    ELSE [raised |-> "ValueError", columns |-> <<>>]

\* Lines 844-856: values_dict, with four columns per signal.
ColumnName(tl_id, what) == ToString(tl_id) \o "_" \o what

PerSignalColumns == {"green_prob", "tte_mode", "tte_25th_perc", "tte_75th_perc"}

ValuesDict(tl_ids) ==
    [name \in {"scene_idx", "scene_frame_idx"}
              \cup {ColumnName(tl_ids[k], what) :
                       k \in 1..Len(tl_ids), what \in PerSignalColumns} |->
        IF name = "scene_idx" THEN scene_indices_list
        ELSE IF name = "scene_frame_idx" THEN frame_indices_list
        ELSE LET k == CHOOSE k \in 1..Len(tl_ids) :
                          \E what \in PerSignalColumns :
                              name = ColumnName(tl_ids[k], what)
                 tl_id == tl_ids[k]
             IN  IF name = ColumnName(tl_id, "green_prob")
                 THEN DefaultList(tl_idx_2_green_color_prob_list, tl_id)
                 ELSE IF name = ColumnName(tl_id, "tte_mode")
                 THEN DefaultList(tl_idx_2_mode_list, tl_id)
                 ELSE IF name = ColumnName(tl_id, "tte_25th_perc")
                 THEN DefaultList(tl_idx_2_25perc_list, tl_id)
                 ELSE DefaultList(tl_idx_2_75perc_list, tl_id)]

\* Lines 864-869 and 908-909: the loader of predict mode is built with
\* return_indices and predict is called; lines 714-733 empty the lists.
InitPredict ==
    /\ pc = "predict"
    /\ \E n \in 0..MaxSamples :
           dataset \in [1..n -> [scene_idx : IdVals, frame_idx : IdVals]]
    /\ batch_size \in 1..MaxBatchSize
    /\ undelivered = DOMAIN dataset
    /\ processed = <<>>
    /\ scene_indices_list = <<>>
    /\ frame_indices_list = <<>>
    /\ tl_idx_2_mode_list = <<>>
    /\ tl_idx_2_25perc_list = <<>>
    /\ tl_idx_2_75perc_list = <<>>
    /\ tl_idx_2_green_color_prob_list = <<>>
    /\ values_df = <<>>
    /\ DataIdle
    /\ LossIdle
    /\ GradIdle
    /\ TrainIdle
    /\ ArtifactIdle

predictRest == <<dataVars_rest, lossVars, gradVars, trainVars, artifactVars,
                 dataset, batch_size>>

\* Lines 735-786: one batch is delivered with its scene and frame indices,
\* the model is applied and every list is extended with the batch's values.
\* (Lines 788-839 compute the loss of the batch for the printed averages.)
PredictBatch(b) ==
    /\ pc = "predict"
    /\ undelivered # {}
    /\ b \in NextBatches(undelivered, batch_size)
    /\ LET tl_ids == tl_signal_indices
           ids == {tl_ids[k] : k \in 1..Len(tl_ids)}
           scene_indices == [i \in 1..Len(b) |-> dataset[b[i]].scene_idx]
           frame_indices == [i \in 1..Len(b) |-> dataset[b[i]].frame_idx]
           tl_2_color_class ==
               [tl_id \in ids |-> [i \in 1..Len(b) |-> GreenProb(b[i], tl_id)]]
           tl_2_tte_mode_quantiles ==
               [tl_id \in ids |->
                   [i \in 1..Len(b) |-> TteModeQuantiles(b[i], tl_id)]]
           tte_column(c) ==
               [tl_id \in ids |-> ColumnOf(tl_2_tte_mode_quantiles[tl_id], c)]
       IN  /\ scene_indices_list' = Extend(scene_indices_list, scene_indices)
           /\ frame_indices_list' = Extend(frame_indices_list, frame_indices)
           /\ tl_idx_2_mode_list' =
                  ExtendAll(tl_idx_2_mode_list, tl_ids, tte_column(0), 1)
           /\ tl_idx_2_25perc_list' =
                  ExtendAll(tl_idx_2_25perc_list, tl_ids, tte_column(1), 1)
           /\ tl_idx_2_75perc_list' =
                  ExtendAll(tl_idx_2_75perc_list, tl_ids, tte_column(2), 1)
           /\ tl_idx_2_green_color_prob_list' =
                  ExtendAll(tl_idx_2_green_color_prob_list, tl_ids,
                            tl_2_color_class, 1)
    /\ undelivered' = undelivered \ {b[i] : i \in 1..Len(b)}
    /\ processed' = processed \o b
    /\ UNCHANGED <<pc, predictRest, values_df>>

\* Lines 840-861: the loader is exhausted and the results table is built
\* and written.
WriteResults ==
    /\ pc = "predict"
    /\ undelivered = {}
    /\ values_df' = DataFrame(ValuesDict(TrafficLightIndices(tl_signal_indices)))
    /\ pc' = "predicted"
    /\ UNCHANGED <<predictRest, undelivered, processed, scene_indices_list,
                   frame_indices_list, tl_idx_2_mode_list, tl_idx_2_25perc_list,
                   tl_idx_2_75perc_list, tl_idx_2_green_color_prob_list>>

NextPredict ==
    \/ /\ pc = "predict"
       /\ \E b \in NextBatches(undelivered, batch_size) : PredictBatch(b)
    \/ WriteResults

SpecPredict == InitPredict /\ [][NextPredict]_vars

-----------------------------------------------------------------------------
(* Properties of the masked loss *)

\* The number of (sample, signal) pairs of the batch whose flag in field is 1.
FlagCount(field) ==
    Cardinality({<<i, k>> \in (1..Len(batch)) \X (1..Len(tl_signal_indices)) :
                    batch[i][field][tl_signal_indices[k]] = 1})

\* What averaging must leave of a term whose flags sum to count.
Averaged(term, count) ==
    /\ IsFinite(term.num)
    /\ IF count = 0
       THEN term = Term(Fin(0))
       ELSE term.by = <<count>>

\* C8: for every batch, each of the two terms is divided by the sum over
\* all signals and samples of its availability flags; when that sum is 0 the
\* term is not divided and is exactly 0, not NaN; entries of the
\* time-to-event term that were zeroed as NaN or infinite count in the
\* denominator like the others.
C8_DenominatorIsFlagSum ==
    /\ pc \in {"tte_loop", "loss"} =>
         /\ loss_bce_terms_count = FlagCount("classes_availabilities")
         /\ Averaged(loss_bce, FlagCount("classes_availabilities"))
    /\ pc = "loss" =>
         /\ loss_tte_log_prob_terms_count = FlagCount("tte_availabilities")
         /\ Averaged(loss_tte_log_prob, FlagCount("tte_availabilities"))

\* A training batch of two samples, one with no time-to-event known: the
\* only available entry of the time-to-event term was zeroed and the term
\* was still divided by 1, the classification term by the number of its
\* flags.
C8_Witness ==
    /\ pc = "loss"
    /\ mode = "train"
    /\ Len(batch) = 2
    /\ FlagCount("tte_availabilities") = 1
    /\ zeroed_available = 1
    /\ loss_tte_log_prob = Divide(Term(Fin(0)), 1)
    /\ FlagCount("classes_availabilities") >= 2
    /\ loss_bce.by = <<FlagCount("classes_availabilities")>>

\* C9: both terms are the same for two batches, and two sets of predictions,
\* that differ only in the class, the time-to-event and the prediction of
\* pairs whose availability flag is 0.
C9_UnavailableValuesDoNotMatter ==
    pc \in {"bce_loop", "tte_loop", "loss"} =>
        /\ alt_loss_bce = loss_bce
        /\ alt_loss_tte_log_prob = loss_tte_log_prob

\* Two batches that did differ where flags are 0, with available labels
\* contributing to both terms.
C9_Witness ==
    /\ pc = "loss"
    /\ alt_differs
    /\ loss_bce.num # Fin(0)
    /\ loss_tte_log_prob.num # Fin(0)
    /\ FlagCount("classes_availabilities") < Len(batch) * Len(tl_signal_indices)
    /\ FlagCount("tte_availabilities") < Len(batch) * Len(tl_signal_indices)

-----------------------------------------------------------------------------
(* Properties of the gradient hook *)

\* What sanitization must make of one entry x of a gradient.
Sanitized(x) ==
    IF x = NaN \/ x = PosInf \/ x = NegInf THEN Fin(0)
    ELSE IF x.v > GradClamp THEN Fin(GradClamp)
    ELSE IF x.v < -GradClamp THEN Fin(-GradClamp)
    ELSE x

\* C10: after a backward pass, the gradient of every parameter of
\* IntersectionModel holds 0 where autograd computed NaN, +Infinity or
\* -Infinity (infinities are zeroed, not clamped to the bound) and
\* max(-0.25, min(0.25, x)) where it computed a finite x; whenever a gradient
\* is stored, all its entries are finite and lie in [-0.25, 0.25].
C10_GradientsSanitized ==
    /\ pc = "backward" =>
         /\ parameters = NamedParameters(tl_signal_indices)
         /\ \A param \in parameters :
               /\ Len(grad[param]) = Len(raw_grad[param])
               /\ \A i \in 1..Len(raw_grad[param]) :
                     grad[param][i] = Sanitized(raw_grad[param][i])
    /\ pc \in {"backward", "clip_grad_norm", "step"} =>
         \A param \in parameters : \A i \in 1..Len(grad[param]) :
            /\ grad[param][i].kind = "fin"
            /\ grad[param][i].v >= -GradClamp
            /\ grad[param][i].v <= GradClamp

\* The gradient NaN, +Infinity, 1.5 of a head of the second signal became
\* 0, 0, 0.25 while a -1.5 in the second layer of the LSTM became -0.25.
C10_Witness ==
    /\ pc = "backward"
    /\ raw_grad[<<"fc_tte_k_2", "bias">>] = <<NaN, PosInf, Fin(1500)>>
    /\ grad[<<"fc_tte_k_2", "bias">>] = <<Fin(0), Fin(0), Fin(250)>>
    /\ raw_grad[<<"lstm", "weight_hh_l1_reverse">>] = <<Fin(-1500)>>
    /\ grad[<<"lstm", "weight_hh_l1_reverse">>] = <<Fin(-250)>>

-----------------------------------------------------------------------------
(* Properties of the training loop *)

\* An evaluation has been made and, after it, the patience is used up or the
\* mean loss of the evaluation is exactly 0.
StopConditionHolds ==
    /\ evals.last # <<>>
    /\ \/ evals.stale >= patience
       \/ MeanIsZero(evals.last[1])

\* C11: train is in its early-stopped state exactly when, after the
\* evaluation of an epoch, the evaluation loss has not improved for patience
\* consecutive epochs or its mean is exactly 0; once that holds, no training
\* batch is fetched and no optimizer step is taken any more.
C11_EarlyStoppedIffPatienceOrZeroLoss ==
    /\ [](pc = "early_stopped" <=> StopConditionHolds)
    /\ [][StopConditionHolds =>
            /\ batches_fetched' = batches_fetched
            /\ optimizer_steps' = optimizer_steps]_vars

\* train stopped in its fifth epoch for want of improvement, with a loss
\* other than 0, every epoch having trained on two batches.
C11_Witness ==
    /\ pc = "early_stopped"
    /\ evals.stale = patience
    /\ ~MeanIsZero(evals.last[1])
    /\ n_trn = 2
    /\ optimizer_steps = 2 * (epoch + 1)

BackwardPassSteps == <<"zero_grad", "backward", "clip_grad_norm", "step">>

\* C14: for every training batch, whatever its availability counts, the
\* gradients are reset, computed and sanitized for every parameter, clipped
\* jointly and consumed by one optimizer step, in this order and once each;
\* the gradient the optimizer step consumes is sanitized and clipped; no
\* batch goes without its optimizer step.
C14_OneSanitizedClippedStepPerBatch ==
    /\ pc = "step" =>
         /\ steps = BackwardPassSteps
         /\ \A param \in NamedParameters(tl_signal_indices) :
            \A i \in 1..Len(raw_grad[param]) :
               /\ IsFinite(grad[param][i])
               /\ grad[param][i].v >= -GradClamp
               /\ grad[param][i].v <= GradClamp
               /\ ~IsFinite(raw_grad[param][i]) => grad[param][i] = Fin(0)
    /\ pc \in {"loss", "zero_grad", "backward", "clip_grad_norm"} =>
         /\ steps = SubSeq(BackwardPassSteps, 1, Len(steps))
         /\ optimizer_steps = batches_fetched - 1
    /\ pc \in {"step", "trn_loop", "val_loop", "epoch", "early_stopped",
               "exhausted"} =>
         optimizer_steps = batches_fetched
    /\ pc \in {"trn_loop", "loss", "zero_grad", "backward", "clip_grad_norm",
               "step"} =>
         batches_fetched = epoch * n_trn + trn_pos

\* The optimizer step of a batch with no available label, whose gradients
\* held NaN and infinity, has been taken.
C14_Witness ==
    /\ pc = "step"
    /\ ~trn_counted
    /\ steps = BackwardPassSteps
    /\ raw_grad[<<"embedding", "weight">>] = <<NaN, NegInf, Fin(1500)>>
    /\ grad[<<"embedding", "weight">>] = <<Fin(0), Fin(0), Fin(250)>>
    /\ optimizer_steps = 2

\* The steps of one epoch: its beginning, six per training batch, the end of
\* the training pass, one per validation batch, and its end.
EpochSteps == 6 * n_trn + Len(val_counted) + 3

\* The steps of the batch at hand still to come.
BatchStepsLeft ==
    CASE pc = "loss" -> 5
      [] pc = "zero_grad" -> 4
      [] pc = "backward" -> 3
      [] pc = "clip_grad_norm" -> 2
      [] pc = "step" -> 1
      [] OTHER -> 0

\* The most steps train can still take: 0 once it has returned.
StepsLeft ==
    CASE pc \in {"early_stopped", "exhausted"} -> 0
      [] pc = "epoch" -> (epoch_max - epoch) * EpochSteps + 1
      [] pc = "val_loop" ->
            (epoch_max - epoch - 1) * EpochSteps + 2
            + (Len(val_counted) - val_pos)
      [] OTHER ->
            (epoch_max - epoch - 1) * EpochSteps + 3 + Len(val_counted)
            + 6 * (n_trn - trn_pos) + BatchStepsLeft

\* C15: every step of train leaves fewer steps to come, so that train ends,
\* after at most epoch_max epochs; an epoch is a pass over
\* all training batches followed by a pass over all validation batches; the
\* decision to stop is taken only when the validation pass is complete; and
\* no validation batch comes with a backward pass or an optimizer step.
C15_WholeEpochsThenTermination ==
    /\ [][StepsLeft' < StepsLeft]_vars
    /\ [](/\ StepsLeft >= 0
          /\ epoch <= epoch_max
          /\ pc = "early_stopped" => epoch < epoch_max
          /\ pc \in {"early_stopped", "exhausted", "epoch"} =>
               /\ batches_fetched =
                     (IF pc = "early_stopped" THEN epoch + 1 ELSE epoch) * n_trn
               /\ evals.last # <<>> =>
                     /\ trn_pos = n_trn
                     /\ val_pos = Len(val_counted)
          /\ pc = "val_loop" => trn_pos = n_trn)
    /\ [][/\ (pc' \in {"early_stopped", "exhausted"} /\ pc' # pc) =>
               \/ pc = "epoch" /\ epoch = epoch_max
               \/ pc = "val_loop" /\ val_pos = Len(val_counted)
          /\ pc = "val_loop" =>
               /\ optimizer_steps' = optimizer_steps
               /\ grad' = grad
               /\ raw_grad' = raw_grad]_vars

\* train has run all of its five epochs, each over two training and two
\* validation batches, and returned.
C15_Witness ==
    /\ pc = "exhausted"
    /\ epoch = 5
    /\ epoch_max = 5
    /\ n_trn = 2
    /\ Len(val_counted) = 2
    /\ batches_fetched = 10

\* C17: every row get_valid_indices returned has, among the rows
\* row_i - valid_hist_len .. row_i the history builder reads, the row with a
\* token that made the selector's window valid (the nearest row with a token,
\* at most HIST_LEN_FRAMES - 2 rows back, continuous up to the target row),
\* so the sample built for it has a sequence length of at least 1.
C17_SelectedRowsHaveTokensInWindow ==
    DatasetBuilt =>
        \A r \in Selected :
            LET df == tl_events_df_intersection
                valid_hist_len == ItemHistLen(df, r, HIST_LEN_FRAMES)
            IN  /\ \E j \in 0..Min(HIST_LEN_FRAMES - 2, valid_hist_len) :
                       /\ r - j >= 0
                       /\ HasTokens(df, r - j)
                       /\ \A i \in 0..j : IsContinuous(df, r - i)
                /\ SampleOf(r).error = "none"
                /\ SampleOf(r).seq_len >= 1

\* The sample of a selected row was built; the row itself has no token, its
\* token lies one row back, the farthest the selector looks, and the
\* builder's window reaches one row further.
C17_Witness ==
    /\ SampleBuilt
    /\ sample.row_i \in Selected
    /\ sample.seq_len = 1
    /\ LET df == tl_events_df_intersection
           r  == sample.row_i
       IN  /\ ~HasTokens(df, r)
           /\ HasTokens(df, r - 1)
           /\ Iloc(df, r).valid_hist_len = HIST_LEN_FRAMES - 1
           /\ ~HasTokens(df, r - Iloc(df, r).valid_hist_len)
    /\ Len(tl_events_df) > Len(tl_events_df_intersection)

\* The positions in the full table of the rows of the intersection, in order.
OrigPositions ==
    SelectSeqIdx([i \in 1..Len(tl_events_df) |->
                     tl_events_df[i].master_intersection_idx = intersection_idx],
                 0, Len(tl_events_df))

\* C18: with continuous_time derived by the module and valid_hist_len
\* computed on the full table, the window row_i - valid_hist_len .. row_i of
\* every row starts at 0 or later and holds only rows of the target row's
\* intersection; in the table filtered to the intersection the slice
\* [row_i - valid_hist_len, row_i] stays in bounds and reads the very rows the
\* window holds in the full table.
C18_WindowStaysInsideIntersection ==
    /\ HistLenComputed =>
           \A r \in RowsOf(tl_events_df) :
               LET start == r - Iloc(tl_events_df, r).valid_hist_len
               IN  /\ start >= 0
                   /\ \A i \in start..r :
                          Iloc(tl_events_df, i).master_intersection_idx =
                              Iloc(tl_events_df, r).master_intersection_idx
    /\ DatasetBuilt =>
           /\ Len(OrigPositions) = Len(tl_events_df_intersection)
           /\ \A p \in RowsOf(tl_events_df_intersection) :
                  LET df    == tl_events_df_intersection
                      len   == Iloc(df, p).valid_hist_len
                      orig  == OrigPositions[p + 1]
                  IN  /\ p - len >= 0
                      /\ len = Iloc(tl_events_df, orig).valid_hist_len
                      /\ PySlice(df, p - len, p + 1) =
                             PySlice(tl_events_df, orig - len, orig + 1)
                      /\ Len(PySlice(df, p - len, p + 1)) = len + 1

\* A table that opens with a row of another intersection and has another in
\* its middle: a row of the intersection whose window of two rows ends right
\* after the first foreign row, so that its position in the filtered table
\* is lower than in the full table, and a row of the intersection right
\* after the second foreign row.
C18_Witness ==
    /\ DatasetBuilt
    /\ Len(tl_events_df) = 4
    /\ Len(tl_events_df_intersection) = 2
    /\ Iloc(tl_events_df, 0).master_intersection_idx # intersection_idx
    /\ Iloc(tl_events_df, 1).master_intersection_idx = intersection_idx
    /\ Iloc(tl_events_df, 2).master_intersection_idx = intersection_idx
    /\ Iloc(tl_events_df, 2).valid_hist_len = 1
    /\ Iloc(tl_events_df, 3).master_intersection_idx # intersection_idx
    /\ OrigPositions = <<1, 2>>

-----------------------------------------------------------------------------
(* Properties of the artifacts *)

\* f XOR 1.
Xor1(f) == IF f % 2 = 0 THEN f + 1 ELSE f - 1

\* The folds of the training runs whose files this run read.
LoadedFolds == {loaded[a][1] : a \in {b \in Artifacts : loaded[b] # NoFile}}

\* The files of fold f a training run writes.
FoldPaths(f, withCheckpoint) ==
    {Path(a, f) : a \in IF withCheckpoint
                        THEN Artifacts
                        ELSE Artifacts \ {"combined_loss_checkpoint"}}

\* What a finished training run of fold f has written: its vocabulary and
\* its term frequencies, with or without its checkpoint, all under fold f and
\* nothing else.
TrainedUnderOwnFold ==
    pc = "trained" =>
        /\ written \in {FoldPaths(fold_i, TRUE), FoldPaths(fold_i, FALSE)}
        /\ \A p \in written : disk[p] = <<fold_i>>

\* C13 as stated: in predict mode with fold f the vocabulary, the term
\* frequencies and the checkpoint all come from fold f XOR 1; in training
\* mode the artifacts are written under fold f.
C13_LoadedFromFoldXor1 ==
    /\ pc = "checkpoint_loaded" => \A a \in Artifacts : loaded[a] = <<Xor1(fold_i)>>
    /\ TrainedUnderOwnFold

\* C13, amended: in predict mode with fold f the vocabulary, the term
\* frequencies and the checkpoint all come from one fold, (f + 1) mod 2,
\* which is never f and is f XOR 1 when f is 0 or 1; in training mode the
\* artifacts are written under fold f and nowhere else.
C13_LoadedFromComplementaryFoldMod2 ==
    /\ pc = "checkpoint_loaded" =>
           /\ \A a \in Artifacts : loaded[a] # NoFile
           /\ \E g \in {0, 1} :
                  /\ LoadedFolds = {g}
                  /\ g # fold_i
                  /\ (g + fold_i) % 2 = 1
                  /\ fold_i \in {0, 1} => g = Xor1(fold_i)
    /\ pc \in {"vocab_loaded", "vocab_ready", "FileNotFoundError"} =>
           /\ Cardinality(LoadedFolds) <= 1
           /\ fold_i \notin LoadedFolds
    /\ perform_prediction => written = {}
    /\ TrainedUnderOwnFold

\* A predict run of fold 2 has read the three artifacts of fold 1 amid the
\* files of other folds.
C13_Witness ==
    /\ pc = "checkpoint_loaded"
    /\ fold_i = 2
    /\ \A a \in Artifacts : loaded[a] = <<1>>
    /\ \A a \in Artifacts : disk[Path(a, 2)] # NoFile /\ disk[Path(a, 3)] # NoFile

-----------------------------------------------------------------------------
(* Properties of predict *)

\* Entry i of the column of a signal belongs to sample s.
RowBelongsTo(df, i, s) ==
    /\ df["scene_idx"][i] = dataset[s].scene_idx
    /\ df["scene_frame_idx"][i] = dataset[s].frame_idx
    /\ \A k \in 1..Len(tl_signal_indices) :
           LET tl_id == tl_signal_indices[k]
           IN  /\ df[ColumnName(tl_id, "green_prob")][i] = GreenProb(s, tl_id)
               /\ df[ColumnName(tl_id, "tte_mode")][i] =
                      TteModeQuantiles(s, tl_id)[1]
               /\ df[ColumnName(tl_id, "tte_25th_perc")][i] =
                      TteModeQuantiles(s, tl_id)[2]
               /\ df[ColumnName(tl_id, "tte_75th_perc")][i] =
                      TteModeQuantiles(s, tl_id)[3]

\* C16: once predict has processed the batches, in whatever order the loader
\* delivered the samples, the results table has one row per sample
\* processed, the four columns of every signal are as long as the scene and
\* frame columns, and entry i of every column belongs to the i-th sample
\* processed.
C16_OneAlignedRowPerSample ==
    pc = "predicted" =>
        /\ values_df.raised = ""
        /\ Len(processed) = Len(dataset)
        /\ {processed[i] : i \in 1..Len(processed)} = DOMAIN dataset
        /\ \A name \in DOMAIN values_df.columns :
               Len(values_df.columns[name]) = Len(processed)
        /\ \A k \in 1..Len(tl_signal_indices) : \A what \in PerSignalColumns :
               ColumnName(tl_signal_indices[k], what) \in
                   DOMAIN values_df.columns
        /\ \A i \in 1..Len(processed) : RowBelongsTo(values_df.columns, i, processed[i])

\* Three samples, two of them with the same scene and frame, were delivered
\* in two batches out of dataset order and the table is written.
C16_Witness ==
    /\ pc = "predicted"
    /\ batch_size = 2
    /\ processed = <<3, 1, 2>>
    /\ dataset[1] = dataset[3]
    /\ dataset[2] # dataset[1]
    /\ Len(values_df.columns["2_tte_75th_perc"]) = 3

=============================================================================
